---- MODULE Spec2Model ----
(***************************************************************************)
(* A model of the cryptopulse signal-to-trade pipeline.                    *)
(*                                                                         *)
(* Money is counted in mills (1/1000 USD) so that round(x, 2) is a real    *)
(* operation: it maps a value in mills to the nearest multiple of 10       *)
(* mills.  Prices are whole USD, quantities are counted in lots of         *)
(* 10^-p coins for a quantity precision p.  Arithmetic is exact; binary    *)
(* floating point error is not represented.                                *)
(***************************************************************************)
EXTENDS Integers, Sequences, FiniteSets, TLC

(***************************************************************************)
(* Bounds of the model.                                                    *)
(***************************************************************************)
\* number of update calls a run of the persistence layer may start
MaxCalls == 3

\* number of trade workers (NUM_WORKERS tasks in the program)
NumWorkers == 2

\* the tasks that may run concurrently on the event loop (trade workers)
Workers == 1..NumWorkers

\* chat ids used as PnL keys (stringified by the callers)
ChatKeys == {"c1", "c2"}

\* PnL values (mills) a completed trade may hand to the persistence layer
PnlValues == {-2204, -6, 4, 10556}

\* number of channel messages the listener receives in a run
MaxMessages == 2

\* TRADE_SENTIMENT_THRESHOLD (percent)
TRADE_SENTIMENT_THRESHOLD == 50

\* MARKETCAP_UPDATE_INTERVAL (seconds)
MARKETCAP_UPDATE_INTERVAL == 3600

\* the program snapshots that wire the pipeline:
\*   "app"     app.py + message_processor.py + queue_manager.py
\*   "mono"    run_cryptopulse.py
\*   "modules" run_cryptopulse_refactored.py + modules/
\*   "engine"  telegram_listener.py + trading_engine.py + data_manager.py
Variants == {"app", "mono", "modules", "engine"}

\* the watched channels (CHAT_ID_LIST)
SourceChats == {"c1"}

\* the aggregation chat every message is forwarded to (MAIN_CHAT_ID)
MainChat == "main"

\* sentiment percentages the LLM answer may carry
Sentiments == {-50, -49, 49, 50}

\* tickers are sequences of tokens: "AAA" is <<"AAA">>, "AAAUSDT" is
\* <<"AAA", "USDT">>, the empty string is <<>>
AAAUSDT == <<"AAA", "USDT">>

BTCUSDT == <<"BTC", "USDT">>

\* the "Coins:" lists the LLM answer may carry
CoinLists == { << <<"AAA">> >>,
               << <<"N/A">>, <<>>, <<"ZZZ">>, BTCUSDT >> }

\* quantityPrecision of the symbols listed by the exchange
Precisions == [s \in {AAAUSDT, BTCUSDT} |-> IF s = AAAUSDT THEN 3 ELSE 1]

\* ticker quotes (USD) seen by the pipeline when a position is opened and when
\* it is closed; they divide the order value, so every amount of the pipeline
\* is a whole number of mills
EntryQuotes == {4}

ExitQuotes == {4, 5}

\* what a CoinGecko fetch may return: <<>> is a failed fetch
FetchResults == { <<>>, <<BTCUSDT>> }

\* the instants (seconds) the clock passes through
Times == <<0, 3601>>

(***************************************************************************)
(* Arithmetic helpers.                                                     *)
(***************************************************************************)
Abs(x) == IF x < 0 THEN -x ELSE x

Max(a, b) == IF a >= b THEN a ELSE b

Min(a, b) == IF a <= b THEN a ELSE b

\* round(n / d, 2) for a value n/d in mills (d > 0): the nearest multiple of
\* 10 mills, ties to the even cent as Python's round does on exact ties.
Round2Q(n, d) ==
    LET q == n \div (10 * d)
        r == n - q * 10 * d
    IN  IF 2 * r < 10 * d THEN 10 * q
        ELSE IF 2 * r > 10 * d THEN 10 * (q + 1)
        ELSE IF q % 2 = 0 THEN 10 * q ELSE 10 * (q + 1)

\* a plausible slip: the value is stored without rounding
Round2Unrounded(x) == x

\* round(x, 2)
Round2(x) == Round2Q(x, 1)

(***************************************************************************)
(* State.                                                                  *)
(***************************************************************************)
VARIABLES
    lock,         \* DataStorage.lock: 0 when free, else the task holding it
    pnl_file,     \* pnl_data.json: [st, data]
    stats_file,   \* stats_data.json: [st, data]
    upd,          \* per task: the update call it is executing
    calls,        \* number of update calls started so far
    overwritten,  \* history: content of the file replaced by the save under way
    pnlLog,       \* history: <<key, delta>> of every completed update_pnl_data
    statsLog,     \* history: pnl of every completed update_stats_data
    contended,    \* history: some call found the lock held by another task
    calc,         \* one computation followed on its own: inputs and values derived
    variant,      \* which snapshot of the pipeline is running
    BINANCE_TESTNET_FLAG,  \* whether orders go to the sandbox venue
    received,     \* number of channel messages received so far
    message_queue,       \* asyncio.Queue of (forwarded_message, original_message)
    proc,                \* the message processor task
    symbol_queue,        \* asyncio.Queue of (symbol, direction, message, chat id)
    pending_symbols,     \* symbols queued and not yet claimed by a worker
    processing_symbols,  \* symbols whose trade cycle is running
    wk,                  \* per worker task: where it is in its loop
    mcap_file,           \* top_market_cap.json
    mcap_wake,           \* index in Times at which update_market_cap_loop wakes
    clock                \* index in Times of the current instant

storeVars == <<lock, pnl_file, stats_file, upd, calls, overwritten, pnlLog, statsLog,
               contended>>

\* everything the persistence layer does not touch
cfgVars == <<variant, BINANCE_TESTNET_FLAG>>

mcapVars == <<mcap_file, mcap_wake, clock>>

tradeVars == <<symbol_queue, pending_symbols, processing_symbols, wk>>

pipeVars == <<cfgVars, received, message_queue, proc, tradeVars, mcapVars>>

nonStoreVars == <<calc, pipeVars>>

vars == <<storeVars, nonStoreVars>>

EmptyMap == [k \in {} |-> 0]

AbsentFile == [st |-> "absent", data |-> EmptyMap]

TruncatedFile == [st |-> "truncated", data |-> EmptyMap]

JsonFile(d) == [st |-> "json", data |-> d]

\* no PnL computation under way
NoCalc == [pc |-> "none"]

\* the message processor waiting on message_queue.get()
IdleProc == [pc |-> "idle", original_chat |-> "none", sentiment |-> 0, direction |-> "none",
             symbols |-> <<>>, idx |-> 0, not_found |-> <<>>, symbol |-> <<>>,
             top |-> FALSE, notice |-> "none", h |-> 0]

\* a worker waiting on symbol_queue.get()
IdleWorker == [pc |-> "get", symbol |-> <<>>, direction |-> "none", chat |-> "none",
               price |-> 0, pnl |-> 0, h |-> 0, entry_side |-> "none", exit_side |-> "none"]

\* no market-cap snapshot on disk
NoSnapshot == [st |-> "absent", timestamp |-> 0, symbols |-> <<>>]

\* the queues, sets and tasks as constructed: empty queues and sets, every
\* task at its first suspension point
TasksStart ==
    /\ received = 0
    /\ message_queue = <<>>
    /\ proc = IdleProc
    /\ symbol_queue = <<>>
    /\ pending_symbols = {}
    /\ processing_symbols = {}
    /\ wk = [w \in Workers |-> IdleWorker]

\* the pipeline as constructed, with no market-cap snapshot on disk
PipeStart ==
    /\ TasksStart
    /\ mcap_file = NoSnapshot
    /\ mcap_wake = 1
    /\ clock = 1

\* the pipeline is not running
PipeIdle == PipeStart /\ variant = "none" /\ BINANCE_TESTNET_FLAG = FALSE

IdleCall == [pc |-> "idle", op |-> "none", key |-> "none", val |-> 0, chain |-> "none",
             data |-> EmptyMap]

\* load_data: {} when the file is absent or does not parse (an empty file)
load_data(file) == IF file.st = "json" THEN file.data ELSE EmptyMap

\* dict.get(key, default)
Get(d, k, default) == IF k \in DOMAIN d THEN d[k] ELSE default

\* d[k] = v
Put(d, k, v) == [x \in DOMAIN d \cup {k} |-> IF x = k THEN v ELSE d[x]]

\* data[key] = round(data.get(key, 0) + value, 2)
PnlUpdated(data, key, value) == Put(data, key, Round2(Get(data, key, 0) + value))

NewMaxGainNoMax(prev, pnl) == Round2(pnl)

\* data["Maximum Gain"] = round(max(prev_max_gain, pnl), 2)
NewMaxGain(prev, pnl) == Round2(Max(prev, pnl))

\* data["Maximum Drawdown"] = round(min(prev_max_drawdown, pnl), 2)
NewMaxDrawdown(prev, pnl) == Round2(Min(prev, pnl))

\* data["Average Gain"] = round((prev_avg * n + pnl) / (n + 1), 2)
NewAverageGain(prev_avg, n, pnl) == Round2Q(prev_avg * n + pnl, n + 1)

\* the body of update_stats_data between load and save
StatsUpdated(data, pnl) ==
    LET prev_max_gain == Get(data, "Maximum Gain", 0)
        prev_max_drawdown == Get(data, "Maximum Drawdown", 0)
        prev_avg_gain == Get(data, "Average Gain", 0)
        total_no_of_trades == Get(data, "Total No. of Trades", 0)
        d1 == IF pnl >= 0
              THEN Put(data, "Maximum Gain", NewMaxGain(prev_max_gain, pnl))
              ELSE Put(data, "Maximum Drawdown", NewMaxDrawdown(prev_max_drawdown, pnl))
        d2 == Put(d1, "Average Gain", NewAverageGain(prev_avg_gain, total_no_of_trades, pnl))
    IN  Put(d2, "Total No. of Trades", total_no_of_trades + 1)

\* DataManager.update_pnl_data: current_data[chat_id] += pnl, or the pnl itself
\* for a new chat id; nothing is rounded
DataManagerPnlUpdated(data, key, value) == Put(data, key, Get(data, key, 0) + value)

\* DataManager.update_stats_data between load and save: counters, the running
\* total, and the two derived figures (average_pnl in mills, win_rate in
\* percent; the quotients are whole for the amounts of the pipeline)
DataManagerStatsUpdated(data, pnl) ==
    LET total_trades == Get(data, "total_trades", 0) + 1
        total_pnl == Get(data, "total_pnl", 0) + pnl
        winning_trades == Get(data, "winning_trades", 0) + (IF pnl > 0 THEN 1 ELSE 0)
        losing_trades == Get(data, "losing_trades", 0) + (IF pnl < 0 THEN 1 ELSE 0)
    IN  [k \in {"total_trades", "winning_trades", "losing_trades", "total_pnl",
                "average_pnl", "win_rate"} |->
            CASE k = "total_trades" -> total_trades
              [] k = "winning_trades" -> winning_trades
              [] k = "losing_trades" -> losing_trades
              [] k = "total_pnl" -> total_pnl
              [] k = "average_pnl" -> total_pnl \div total_trades
              [] OTHER -> (winning_trades * 100) \div total_trades]

\* what an update call computes from the loaded file: DataManager's methods in
\* the TradingEngine wiring, DataStorage's elsewhere
UpdatedData(op, data, key, val) ==
    IF variant = "engine"
    THEN IF op = "pnl" THEN DataManagerPnlUpdated(data, key, val)
                       ELSE DataManagerStatsUpdated(data, val)
    ELSE IF op = "pnl" THEN PnlUpdated(data, key, val)
                       ELSE StatsUpdated(data, val)

\* the history of completed calls, kept when the persistence layer is
\* studied on its own
Logged(log, entry) == IF variant = "none" THEN Append(log, entry) ELSE log

LockFreeIgnored == TRUE

\* asyncio.Lock: acquire succeeds only when nobody holds the lock
LockFree == lock = 0

\* asyncio.Lock.acquire returns without suspending: the lock is free and no
\* earlier caller is waiting for it
CanAcquireNow == LockFree /\ \A o \in Workers : upd[o].pc # "acquire"

\* a call of update_pnl_data (op "pnl") or update_stats_data (op "stats") up
\* to its first suspension; chain "stats" marks the update_pnl_data call of a
\* trade, which is followed by update_stats_data with the same value
NewCall(op, key, val, chain) ==
    [pc |-> IF CanAcquireNow THEN "load" ELSE "acquire", op |-> op, key |-> key,
     val |-> val, chain |-> chain, data |-> EmptyMap]

(***************************************************************************)
(* The persistence layer: update_pnl_data / update_stats_data, one action  *)
(* per stretch of code between two suspension points.                      *)
(***************************************************************************)
\* `async with self.lock` entered by a caller that had to wait
AcquireLock(t) ==
    /\ upd[t].pc = "acquire"
    /\ LockFree
    /\ lock' = t
    /\ upd' = [upd EXCEPT ![t].pc = "load"]
    /\ UNCHANGED <<pnl_file, stats_file, calls, overwritten, pnlLog, statsLog, contended, nonStoreVars>>

\* `data = await self.load_data(path)` and the update of `data`
LoadAndUpdate(t) ==
    /\ upd[t].pc = "load"
    /\ upd' = [upd EXCEPT ![t].pc = "trunc",
                          ![t].data = UpdatedData(upd[t].op,
                                          load_data(IF upd[t].op = "pnl" THEN pnl_file
                                                                         ELSE stats_file),
                                          upd[t].key, upd[t].val)]
    /\ UNCHANGED <<lock, pnl_file, stats_file, calls, overwritten, pnlLog, statsLog, contended, nonStoreVars>>

\* save_data: `aiofiles.open(path, "w")` empties the file
SaveOpen(t) ==
    /\ upd[t].pc = "trunc"
    /\ IF upd[t].op = "pnl"
       THEN /\ overwritten' = pnl_file
            /\ pnl_file' = TruncatedFile
            /\ UNCHANGED stats_file
       ELSE /\ overwritten' = stats_file
            /\ stats_file' = TruncatedFile
            /\ UNCHANGED pnl_file
    /\ upd' = [upd EXCEPT ![t].pc = "write"]
    /\ UNCHANGED <<lock, calls, pnlLog, statsLog, contended, nonStoreVars>>

\* save_data: the JSON text is written and the file closed; the lock is
\* released; in a trade update_stats_data is called next
SaveWrite(t) ==
    /\ upd[t].pc = "write"
    /\ IF upd[t].op = "pnl"
       THEN /\ pnl_file' = JsonFile(upd[t].data)
            /\ pnlLog' = Logged(pnlLog, <<upd[t].key, upd[t].val>>)
            /\ UNCHANGED <<stats_file, statsLog>>
       ELSE /\ stats_file' = JsonFile(upd[t].data)
            /\ statsLog' = Logged(statsLog, upd[t].val)
            /\ UNCHANGED <<pnl_file, pnlLog>>
    /\ IF upd[t].chain = "stats"
       THEN LET waiters == \E o \in Workers : upd[o].pc = "acquire"
            IN  /\ lock' = IF lock # t THEN lock ELSE IF waiters THEN 0 ELSE t
                /\ upd' = [upd EXCEPT ![t] = [pc |-> IF lock = t /\ ~waiters
                                                     THEN "load" ELSE "acquire",
                                              op |-> "stats", key |-> "none",
                                              val |-> upd[t].val, chain |-> "none",
                                              data |-> EmptyMap]]
       ELSE /\ lock' = IF lock = t THEN 0 ELSE lock
            /\ upd' = [upd EXCEPT ![t] = IdleCall]
    /\ overwritten' = AbsentFile
    /\ UNCHANGED <<calls, contended, nonStoreVars>>

StoreStep(t) == AcquireLock(t) \/ LoadAndUpdate(t) \/ SaveOpen(t) \/ SaveWrite(t)

(***************************************************************************)
(* SpecStore: concurrent trade completions calling the persistence layer.  *)
(***************************************************************************)
\* a task calls update_pnl_data({key: delta})
CallUpdatePnl(t, key, delta) ==
    /\ upd[t].pc = "idle"
    /\ calls < MaxCalls
    /\ calls' = calls + 1
    /\ upd' = [upd EXCEPT ![t] = NewCall("pnl", key, delta, "none")]
    /\ lock' = IF CanAcquireNow THEN t ELSE lock
    /\ contended' = (contended \/ lock # 0)
    /\ UNCHANGED <<pnl_file, stats_file, overwritten, pnlLog, statsLog, nonStoreVars>>

\* a task calls update_stats_data(pnl)
CallUpdateStats(t, pnl) ==
    /\ upd[t].pc = "idle"
    /\ calls < MaxCalls
    /\ calls' = calls + 1
    /\ upd' = [upd EXCEPT ![t] = NewCall("stats", "none", pnl, "none")]
    /\ lock' = IF CanAcquireNow THEN t ELSE lock
    /\ contended' = (contended \/ lock # 0)
    /\ UNCHANGED <<pnl_file, stats_file, overwritten, pnlLog, statsLog, nonStoreVars>>

StoreInit ==
    /\ lock = 0
    /\ pnl_file = AbsentFile
    /\ stats_file = AbsentFile
    /\ upd = [t \in Workers |-> IdleCall]
    /\ calls = 0
    /\ overwritten = AbsentFile
    /\ pnlLog = <<>>
    /\ statsLog = <<>>
    /\ contended = FALSE

InitStore == StoreInit /\ calc = NoCalc /\ PipeIdle

NextStore ==
    \/ \E t \in Workers, k \in ChatKeys, d \in PnlValues : CallUpdatePnl(t, k, d)
    \/ \E t \in Workers, p \in PnlValues : CallUpdateStats(t, p)
    \/ \E t \in Workers : AcquireLock(t)
    \/ \E t \in Workers : LoadAndUpdate(t)
    \/ \E t \in Workers : SaveOpen(t)
    \/ \E t \in Workers : SaveWrite(t)

SpecStore == InitStore /\ [][NextStore]_vars

(***************************************************************************)
(* Market-cap snapshot (market_cap_tracker.py).                            *)
(***************************************************************************)
now == Times[clock]

InList(x, list) == \E i \in 1..Len(list) : list[i] = x

\* a plausible slip: a snapshot exactly MARKETCAP_UPDATE_INTERVAL old is stale
CacheFreshBelowInterval ==
    /\ mcap_file.st = "json"
    /\ now - mcap_file.timestamp < MARKETCAP_UPDATE_INTERVAL

\* load_top_market_cap returns the stored list (not None)
CacheFresh ==
    /\ mcap_file.st = "json"
    /\ ~(now - mcap_file.timestamp > MARKETCAP_UPDATE_INTERVAL)

\* save_top_market_cap(symbols)
SavedSnapshot(symbols) == [st |-> "json", timestamp |-> now, symbols |-> symbols]

\* the snapshot file after is_top_market_cap ran with `fetched` as the answer
\* of get_top_market_cap, should it need one
SnapshotAfterLookup(fetched) ==
    IF CacheFresh \/ fetched = <<>> THEN mcap_file ELSE SavedSnapshot(fetched)

\* a plausible slip: when the fetch gives nothing the snapshot on disk, however
\* old, decides
is_top_market_cap_stale(symbol, fetched) ==
    LET symbols == IF CacheFresh \/ fetched = <<>> THEN mcap_file.symbols ELSE fetched
    IN  IF symbols # <<>> THEN InList(symbol, symbols) ELSE FALSE

\* a plausible slip: the exclusion list is never consulted
is_top_market_cap_off(symbol, fetched) == FALSE

\* is_top_market_cap(symbol)
is_top_market_cap(symbol, fetched) ==
    LET symbols == IF CacheFresh THEN mcap_file.symbols ELSE fetched
    IN  IF symbols # <<>> THEN InList(symbol, symbols) ELSE FALSE

(***************************************************************************)
(* get_top_market_cap (market_cap_tracker.py) on the text of the endpoint's *)
(* answer.  Here a string is the sequence of its characters.               *)
(***************************************************************************)
\* TOP_N_MARKETCAP (the top_n_marketcap setting)
TOP_N_MARKETCAP == 2

LowerCase == <<"a", "b", "c", "d", "e", "f", "g", "h", "i", "j", "k", "l", "m", "n", "o", "p", "q", "r", "s", "t", "u", "v", "w", "x", "y", "z">>

UpperCase == <<"A", "B", "C", "D", "E", "F", "G", "H", "I", "J", "K", "L", "M", "N", "O", "P", "Q", "R", "S", "T", "U", "V", "W", "X", "Y", "Z">>

\* str.lower(), character by character
Lower(str) ==
    [i \in 1..Len(str) |->
        IF \E k \in 1..26 : UpperCase[k] = str[i]
        THEN LowerCase[CHOOSE k \in 1..26 : UpperCase[k] = str[i]] ELSE str[i]]

\* str.upper(), character by character
Upper(str) ==
    [i \in 1..Len(str) |->
        IF \E k \in 1..26 : LowerCase[k] = str[i]
        THEN UpperCase[CHOOSE k \in 1..26 : LowerCase[k] = str[i]] ELSE str[i]]

\* `pattern in str`
IsSubstring(pattern, str) ==
    \E i \in 1..(Len(str) - Len(pattern) + 1) :
        SubSeq(str, i, i + Len(pattern) - 1) = pattern

STABLECOIN_PATTERNS ==
    { <<"u", "s", "d">>,
      <<"u", "s", "d", "t">>,
      <<"u", "s", "d", "c">>,
      <<"b", "u", "s", "d">>,
      <<"d", "a", "i">>,
      <<"t", "u", "s", "d">>,
      <<"u", "s", "d", "d">>,
      <<"u", "s", "d", "p">>,
      <<"g", "u", "s", "d">>,
      <<"h", "u", "s", "d">>,
      <<"s", "u", "s", "d">>,
      <<"n", "u", "s", "d">>,
      <<"c", "u", "s", "d">>,
      <<"m", "u", "s", "d">>,
      <<"u", "s", "d", "n">>,
      <<"u", "s", "d", "x">>,
      <<"e", "u", "r", "s">>,
      <<"e", "u", "r", "t">>,
      <<"c", "e", "u", "r">> }

\* is_stablecoin(coin_data)
is_stablecoin(coin_data) ==
    \/ \E pattern \in STABLECOIN_PATTERNS : IsSubstring(pattern, Lower(coin_data.symbol))
    \/ \E pattern \in STABLECOIN_PATTERNS : IsSubstring(pattern, Lower(coin_data.name))

RECURSIVE NonStablecoinSymbols(_, _)
\* the loop of get_top_market_cap over the coins of the answer, from the
\* symbols collected so far: f"{coin['symbol'].upper()}USDT" is appended for
\* every coin that is not a stablecoin, until TOP_N_MARKETCAP are collected
NonStablecoinSymbols(data, collected) ==
    IF data = <<>> THEN collected
    ELSE IF is_stablecoin(Head(data)) THEN NonStablecoinSymbols(Tail(data), collected)
    ELSE LET more == Append(collected, Upper(Head(data).symbol) \o <<"U", "S", "D", "T">>)
         IN  IF Len(more) >= TOP_N_MARKETCAP THEN more
             ELSE NonStablecoinSymbols(Tail(data), more)

\* get_top_market_cap(): [] when the request fails, else the first
\* TOP_N_MARKETCAP symbols collected
get_top_market_cap(response) ==
    IF ~response.ok THEN <<>>
    ELSE LET symbols == NonStablecoinSymbols(response.data, <<>>)
         IN  SubSeq(symbols, 1, Min(Len(symbols), TOP_N_MARKETCAP))

(***************************************************************************)
(* Listener and message processor.                                         *)
(***************************************************************************)
\* my_handler / message_handler: the message is forwarded to the aggregation
\* chat and (forwarded_message, message) is queued; a failed forward drops it
Receive(chat, forwarded) ==
    /\ variant \in Variants
    /\ received < MaxMessages
    /\ received' = received + 1
    /\ message_queue' = IF forwarded
                        THEN Append(message_queue, [original_chat |-> chat])
                        ELSE message_queue
    /\ UNCHANGED <<storeVars, calc, cfgVars, proc, tradeVars, mcapVars>>

\* `if "USDT" not in symbol: symbol += "USDT"`
Canon(symbol) ==
    IF InList("USDT", symbol) THEN symbol ELSE Append(symbol, "USDT")

\* is_symbol_available: symbol in perps_tokens
is_symbol_available(symbol) == symbol \in DOMAIN Precisions

\* a plausible slip: the dedup sets are not consulted
is_symbol_queued_or_processing_off(symbol) == FALSE

\* is_symbol_queued_or_processing
is_symbol_queued_or_processing(symbol) ==
    symbol \in processing_symbols \/ symbol \in pending_symbols

\* a plausible slip: the sign of the sentiment decides without the magnitude
SentimentTriggersAnyMagnitude(sentiment) == TRUE

\* abs(sentiment) >= TRADE_SENTIMENT_THRESHOLD
SentimentTriggers(sentiment) == Abs(sentiment) >= TRADE_SENTIMENT_THRESHOLD

\* direction = "LONG" if sentiment > 0 else "SHORT"
DirectionOf(sentiment) == IF sentiment > 0 THEN "LONG" ELSE "SHORT"

\* the chat id put in the queue item: original_message.chat.id in app.py and
\* run_cryptopulse.py, replied_message.chat.id (the aggregation chat, where
\* the analysis reply was posted) in modules/message_processor.py
SignalChatId(p) == IF variant = "modules" THEN MainChat ELSE p.original_chat

\* an awaited reply raised: the enclosing handler sends an error reply; when
\* that one raises too the loop's own handler logs and the item is done
ProcRaise(p) ==
    IF p.h > 0
    THEN [IdleProc EXCEPT !.pc = "err", !.original_chat = p.original_chat]
    ELSE IdleProc

\* message_queue.get() returns and the LLM request is sent
ProcGet ==
    /\ variant \in Variants
    /\ proc.pc = "idle"
    /\ message_queue # <<>>
    /\ proc' = [IdleProc EXCEPT !.pc = "llm", !.h = 1,
                                !.original_chat = Head(message_queue).original_chat]
    /\ message_queue' = Tail(message_queue)
    /\ UNCHANGED <<storeVars, calc, cfgVars, received, tradeVars, mcapVars>>

\* the LLM call fails: the error text is sent as a reply; _message_processor
\* of telegram_listener.py gets no sentiment and skips the message
LlmError ==
    /\ proc.pc = "llm"
    /\ proc' = IF variant = "engine" THEN IdleProc ELSE [proc EXCEPT !.pc = "err"]
    /\ UNCHANGED <<storeVars, calc, cfgVars, received, message_queue, tradeVars, mcapVars>>

\* the LLM answers: the analysis is sent as a reply to the forwarded message
LlmAnswer(sentiment, symbols) ==
    /\ variant # "engine"
    /\ proc.pc = "llm"
    /\ proc' = [proc EXCEPT !.pc = "reply", !.sentiment = sentiment, !.symbols = symbols]
    /\ UNCHANGED <<storeVars, calc, cfgVars, received, message_queue, tradeVars, mcapVars>>

\* the analysis reply returns; the sentiment decides whether symbols are
\* looked at.  In telegram_listener.py the analysis is sent last and a failed
\* send is only logged
AnalysisReplied(ok) ==
    /\ proc.pc = "reply"
    /\ proc' = IF variant = "engine" THEN IdleProc
               ELSE IF ~ok THEN ProcRaise(proc)
               ELSE IF SentimentTriggers(proc.sentiment)
               THEN [proc EXCEPT !.pc = "sym", !.idx = 1,
                                 !.direction = DirectionOf(proc.sentiment)]
               ELSE IdleProc
    /\ UNCHANGED <<storeVars, calc, cfgVars, received, message_queue, tradeVars, mcapVars>>

\* re.sub(r'[^A-Za-z0-9]', '', token): "N/A" loses its slash (tokens are
\* upper case already)
Alnum(token) == IF token = "N/A" THEN "NA" ELSE token

\* TelegramListener._normalize_symbol: non-alphanumerics are dropped and
\* "USDT" is appended unless the symbol ends with it
normalize_symbol(coin) ==
    LET cleaned == [i \in 1..Len(coin) |-> Alnum(coin[i])]
    IN  IF cleaned # <<>> /\ cleaned[Len(cleaned)] = "USDT"
        THEN cleaned ELSE Append(cleaned, "USDT")

\* TradingEngine.queue_trade returns True: the symbol is neither processing
\* nor pending, is_valid_symbol holds, and the `if not is_top_market_cap(symbol):
\* return False` test lets it through
QueueTradeAccepts(symbol, pending, fetched) ==
    /\ ~(symbol \in processing_symbols \/ symbol \in pending)
    /\ is_symbol_available(symbol)
    /\ is_top_market_cap(symbol, fetched)

RECURSIVE QueueTrades(_, _, _)
\* the `for coin in coins` loop of _message_processor: the symbols queue_trade
\* accepted, in order, and whether the market-cap list was looked up (every
\* lookup of one message gets the same CoinGecko answer)
QueueTrades(coins, pending, fetched) ==
    IF coins = <<>> THEN [queued |-> <<>>, looked |-> FALSE]
    ELSE LET symbol == normalize_symbol(Head(coins))
             reaches_lookup == /\ ~(symbol \in processing_symbols \/ symbol \in pending)
                               /\ is_symbol_available(symbol)
             accepted == QueueTradeAccepts(symbol, pending, fetched)
             rest == QueueTrades(Tail(coins),
                                 IF accepted THEN pending \cup {symbol} ELSE pending,
                                 fetched)
         IN  [queued |-> IF accepted THEN <<symbol>> \o rest.queued ELSE rest.queued,
              looked |-> reaches_lookup \/ rest.looked]

\* _message_processor of telegram_listener.py from the LLM answer to the send
\* of the analysis: threshold, direction, and queue_trade for every coin
EngineLlmAnswer(sentiment, symbols, fetched) ==
    /\ variant = "engine"
    /\ proc.pc = "llm"
    /\ IF symbols = <<>> \/ ~SentimentTriggers(sentiment)
       THEN /\ proc' = IdleProc
            /\ UNCHANGED <<symbol_queue, pending_symbols, mcap_file>>
       ELSE LET direction == DirectionOf(sentiment)
                r == QueueTrades(symbols, pending_symbols, fetched)
            IN  /\ pending_symbols' = pending_symbols
                                          \cup {r.queued[i] : i \in 1..Len(r.queued)}
                /\ symbol_queue' = symbol_queue \o
                       [i \in 1..Len(r.queued) |->
                           [symbol |-> r.queued[i], direction |-> direction,
                            chat |-> proc.original_chat]]
                /\ mcap_file' = IF r.looked THEN SnapshotAfterLookup(fetched) ELSE mcap_file
                /\ proc' = [proc EXCEPT !.pc = "reply", !.sentiment = sentiment,
                                        !.direction = direction, !.symbols = symbols]
    /\ UNCHANGED <<storeVars, calc, cfgVars, received, message_queue, processing_symbols, wk,
                   mcap_wake, clock>>

\* an error reply returns or raises
ErrorReplied(ok) ==
    /\ proc.pc = "err"
    /\ proc' = IF ok THEN IdleProc ELSE ProcRaise(proc)
    /\ UNCHANGED <<storeVars, calc, cfgVars, received, message_queue, tradeVars, mcapVars>>

\* the symbol loop up to its next reply: one ticker is examined; `fetched` is
\* what CoinGecko answers should is_top_market_cap have to ask
ExamineSymbol(fetched) ==
    /\ proc.pc = "sym"
    /\ proc.idx <= Len(proc.symbols)
    /\ LET raw == proc.symbols[proc.idx]
           symbol == Canon(raw)
           next == [proc EXCEPT !.idx = proc.idx + 1]
           tell(notice) == [proc EXCEPT !.pc = "notice", !.symbol = symbol, !.notice = notice]
       IN  IF raw = <<"N/A">> \/ raw = <<>>
           THEN proc' = next /\ UNCHANGED mcap_file
           ELSE IF ~is_symbol_available(symbol)
           THEN /\ proc' = [next EXCEPT !.not_found = Append(proc.not_found, symbol)]
                /\ UNCHANGED mcap_file
           ELSE IF variant = "mono"
           THEN /\ proc' = IF symbol \in processing_symbols \/ symbol \in pending_symbols
                           THEN tell("duplicate") ELSE tell("trade")
                /\ UNCHANGED mcap_file
           ELSE /\ mcap_file' = SnapshotAfterLookup(fetched)
                /\ proc' = IF is_top_market_cap(symbol, fetched)
                           THEN [tell("top") EXCEPT !.top = TRUE]
                           ELSE IF is_symbol_queued_or_processing(symbol)
                           THEN tell("duplicate")
                           ELSE tell("trade")
    /\ UNCHANGED <<storeVars, calc, cfgVars, received, message_queue, tradeVars, mcap_wake,
                   clock>>

\* the symbol loop is over: the unlisted tickers are reported, if any
SymbolsDone ==
    /\ proc.pc = "sym"
    /\ proc.idx > Len(proc.symbols)
    /\ proc' = IF proc.not_found # <<>>
               THEN [proc EXCEPT !.pc = "notice", !.notice = "not_found"]
               ELSE IdleProc
    /\ UNCHANGED <<storeVars, calc, cfgVars, received, message_queue, tradeVars, mcapVars>>

\* a notice of the symbol loop returns or raises; after the "trade will be
\* executed" notice the symbol is added to pending and the item queued
NoticeReplied(ok) ==
    /\ proc.pc = "notice"
    /\ LET next == [proc EXCEPT !.pc = "sym", !.idx = proc.idx + 1, !.symbol = <<>>,
                                !.top = FALSE, !.notice = "none"]
       IN  IF ~ok
           THEN proc' = ProcRaise(proc) /\ UNCHANGED <<symbol_queue, pending_symbols>>
           ELSE IF proc.notice = "not_found"
           THEN proc' = IdleProc /\ UNCHANGED <<symbol_queue, pending_symbols>>
           ELSE IF proc.notice = "trade"
           THEN /\ pending_symbols' = pending_symbols \cup {proc.symbol}
                /\ symbol_queue' = Append(symbol_queue,
                                          [symbol |-> proc.symbol, direction |-> proc.direction,
                                           chat |-> SignalChatId(proc)])
                /\ proc' = next
           ELSE proc' = next /\ UNCHANGED <<symbol_queue, pending_symbols>>
    /\ UNCHANGED <<storeVars, calc, cfgVars, received, message_queue, processing_symbols, wk,
                   mcapVars>>

(***************************************************************************)
(* Trade arithmetic.  Quantities and amounts are exact fractions <<n, d>>  *)
(* with d > 0: a quantity in coins, an amount in USD.                      *)
(***************************************************************************)
\* INITIAL_CAPITAL (USD)
INITIAL_CAPITAL == 100

\* LEVERAGE
LEVERAGE == 1

\* largest quantity precision listed by the exchange
MaxPrecision == 3

\* ticker prices (USD) the exchange may quote
Prices == {2, 3, 7}

Directions == {"LONG", "SHORT"}

RECURSIVE Pow10(_)
Pow10(p) == IF p = 0 THEN 1 ELSE 10 * Pow10(p - 1)

RECURSIVE GCD(_, _)
GCD(a, b) == IF b = 0 THEN a ELSE GCD(b, a % b)

\* the fraction n/d in lowest terms
Frac(n, d) == LET g == GCD(Abs(n), d) IN <<n \div g, d \div g>>

FracAdd(a, b) ==
    LET l == (a[2] \div GCD(a[2], b[2])) * b[2]
    IN  Frac(a[1] * (l \div a[2]) + b[1] * (l \div b[2]), l)

FracSub(a, b) == FracAdd(a, <<-b[1], b[2]>>)

FracMulInt(a, k) == LET g == GCD(Abs(k), a[2]) IN Frac(a[1] * (k \div g), a[2] \div g)

FracDivInt(a, k) == LET g == GCD(Abs(a[1]), k) IN Frac(a[1] \div g, a[2] * (k \div g))

FracEq(a, b) == Frac(a[1], a[2]) = Frac(b[1], b[2])

\* order_size = (INITIAL_CAPITAL * LEVERAGE) / price, floored to the symbol's
\* quantity precision on the sandbox venue
OrderSize(price, testnet, precision) ==
    IF testnet
    THEN Frac((INITIAL_CAPITAL * LEVERAGE * Pow10(precision)) \div price, Pow10(precision))
    ELSE Frac(INITIAL_CAPITAL * LEVERAGE, price)

\* corrected_initial_capital
CorrectedInitialCapital(order_size, price, testnet) ==
    IF testnet
    THEN FracDivInt(FracMulInt(order_size, price), LEVERAGE)
    ELSE Frac(INITIAL_CAPITAL, 1)

\* a plausible slip: the SHORT branch computed like the LONG branch
FinalCapitalLongOnly(direction, capital, price, new_price, order_size) ==
    FracAdd(capital, FracMulInt(order_size, new_price - price))

\* final_capital of BinanceTrader.execute_trade / run_cryptopulse.trade
FinalCapital(direction, capital, price, new_price, order_size) ==
    IF direction = "LONG"
    THEN FracAdd(capital, FracMulInt(order_size, new_price - price))
    ELSE FracSub(capital, FracMulInt(order_size, new_price - price))

\* TradingEngine._calculate_pnl / OptimizedTradingEngine._calculate_pnl
calculate_pnl(direction, quantity, entry_price, exit_price) ==
    IF direction = "LONG"
    THEN FracMulInt(quantity, exit_price - entry_price)
    ELSE FracMulInt(quantity, entry_price - exit_price)

\* the order size and the capital actually committed are derived
CalcOrderSize ==
    /\ calc.pc = "size"
    /\ LET order_size == OrderSize(calc.price, calc.testnet, calc.precision)
       IN  calc' = [calc EXCEPT !.pc = "exit",
                                !.order_size = order_size,
                                !.capital = CorrectedInitialCapital(order_size, calc.price,
                                                                    calc.testnet)]
    /\ UNCHANGED <<storeVars, pipeVars>>

\* the position is closed at new_price and the final capital derived
CalcFinalCapital ==
    /\ calc.pc = "exit"
    /\ calc' = [calc EXCEPT !.pc = "pnl",
                            !.final_capital = FinalCapital(calc.direction, calc.capital,
                                                  calc.price, calc.new_price, calc.order_size)]
    /\ UNCHANGED <<storeVars, pipeVars>>

\* pnl = final_capital - corrected_initial_capital, next to the engines'
\* _calculate_pnl on the same trade
CalcPnl ==
    /\ calc.pc = "pnl"
    /\ calc' = [calc EXCEPT !.pc = "done",
                            !.pnl = FracSub(calc.final_capital, calc.capital),
                            !.engine_pnl = calculate_pnl(calc.direction, calc.order_size,
                                                         calc.price, calc.new_price)]
    /\ UNCHANGED <<storeVars, pipeVars>>

InitPnl ==
    /\ StoreInit
    /\ PipeIdle
    /\ \E direction \in Directions, price \in Prices, new_price \in Prices,
          testnet \in BOOLEAN, precision \in 1..MaxPrecision :
         calc = [pc |-> "size", direction |-> direction, price |-> price,
                 new_price |-> new_price, testnet |-> testnet, precision |-> precision,
                 order_size |-> Frac(0, 1), capital |-> Frac(0, 1),
                 final_capital |-> Frac(0, 1), pnl |-> Frac(0, 1),
                 engine_pnl |-> Frac(0, 1)]

NextPnl == CalcOrderSize \/ CalcFinalCapital \/ CalcPnl

SpecPnl == InitPnl /\ [][NextPnl]_vars

(***************************************************************************)
(* Trade workers: worker() / trade() of run_cryptopulse.py,                *)
(* trading_worker / BinanceTrader.execute_trade of modules/, and           *)
(* QueueManager.worker of queue_manager.py.                                *)
(***************************************************************************)
\* what a ticker request may give: nothing after the retries, a payload
\* without a usable price, or a quote
TickerAnswers(quotes) ==
    {[kind |-> "none", price |-> 0], [kind |-> "invalid", price |-> 0]}
        \cup {[kind |-> "price", price |-> q] : q \in quotes}

\* the side of the order that opens the position: place_buy_order
EntrySide(direction) == "BUY"

\* the side of the order that closes the position: place_sell_order
ExitSide(direction) == "SELL"

\* TradingEngine._execute_trade: place_buy_order for LONG, else place_sell_order
EngineEntrySide(direction) == IF direction = "LONG" THEN "BUY" ELSE "SELL"

\* TradingEngine._execute_trade: place_sell_order for LONG, else place_buy_order
EngineExitSide(direction) == IF direction = "LONG" THEN "SELL" ELSE "BUY"

\* an amount in USD as a whole number of mills
Mills(amount) == (amount[1] * 1000) \div amount[2]

\* pnl of trade(): final_capital - corrected_initial_capital
TradePnl(symbol, direction, price, new_price) ==
    LET order_size == OrderSize(price, BINANCE_TESTNET_FLAG, Precisions[symbol])
        capital == CorrectedInitialCapital(order_size, price, BINANCE_TESTNET_FLAG)
    IN  Mills(FracSub(FinalCapital(direction, capital, price, new_price, order_size), capital))

\* BinanceClient.calculate_order_size, then pnl of _execute_trade
EnginePnl(symbol, direction, price, exit_price) ==
    Mills(calculate_pnl(direction,
                        OrderSize(price, BINANCE_TESTNET_FLAG, Precisions[symbol]),
                        price, exit_price))

\* a plausible slip: the symbol stays in processing_symbols after the cycle
ProcessingKept(symbol) == processing_symbols

\* `finally: processing_symbols.remove(symbol)`
ProcessingRemoved(symbol) == processing_symbols \ {symbol}

\* trade() from its start to its first suspension, for a dequeued item
EntrySegment(item, ticker, order_ok) ==
    LET claimed == [IdleWorker EXCEPT !.symbol = item.symbol, !.direction = item.direction,
                                      !.chat = item.chat]
    IN  IF variant = "app"
        THEN [claimed EXCEPT !.pc = "trade"]
        ELSE IF variant = "engine"
        THEN IF ticker.kind # "price"
                \/ OrderSize(ticker.price, BINANCE_TESTNET_FLAG, Precisions[item.symbol])[1] = 0
                \/ (BINANCE_TESTNET_FLAG /\ ~order_ok)
             THEN [claimed EXCEPT !.pc = "reply"]
             ELSE [claimed EXCEPT !.pc = "hold", !.price = ticker.price,
                                  !.entry_side = EngineEntrySide(item.direction)]
        ELSE IF BINANCE_TESTNET_FLAG /\ item.symbol \notin DOMAIN Precisions
        THEN [claimed EXCEPT !.pc = "reply", !.h = 1]
        ELSE IF ticker.kind # "price"
        THEN [claimed EXCEPT !.pc = "reply", !.h = 1]
        ELSE IF BINANCE_TESTNET_FLAG /\ ~order_ok
        THEN [claimed EXCEPT !.pc = "reply", !.h = 2]
        ELSE [claimed EXCEPT !.pc = "hold", !.h = 2, !.price = ticker.price,
                             !.entry_side = IF BINANCE_TESTNET_FLAG
                                            THEN EntrySide(item.direction) ELSE "none"]

\* symbol_queue.get() returns an item: the symbol moves from pending to
\* processing and the trade runs up to its first suspension (an error reply
\* or the hold)
Dequeue(w, ticker, order_ok) ==
    /\ wk[w].pc = "get"
    /\ symbol_queue # <<>>
    /\ LET item == Head(symbol_queue)
       IN  /\ symbol_queue' = Tail(symbol_queue)
           /\ IF item.symbol \in pending_symbols
              THEN /\ pending_symbols' = pending_symbols \ {item.symbol}
                   /\ processing_symbols' = processing_symbols \cup {item.symbol}
                   /\ wk' = [wk EXCEPT ![w] = EntrySegment(item, ticker, order_ok)]
              ELSE /\ wk' = [wk EXCEPT ![w] = [IdleWorker EXCEPT !.pc = "dead"]]
                   /\ UNCHANGED <<pending_symbols, processing_symbols>>
    /\ UNCHANGED <<storeVars, calc, cfgVars, received, message_queue, proc, mcapVars>>

\* the hold is over: the exit quote is read and the position closed; on
\* success the PnL is handed to update_pnl_data, then to update_stats_data
HoldOver(w, ticker, order_ok) ==
    /\ wk[w].pc = "hold"
    /\ IF ticker.kind # "price" \/ (BINANCE_TESTNET_FLAG /\ ~order_ok)
       THEN /\ wk' = [wk EXCEPT ![w].pc = "reply"]
            /\ UNCHANGED <<upd, lock>>
       ELSE LET pnl == IF variant = "engine"
                       THEN EnginePnl(wk[w].symbol, wk[w].direction, wk[w].price, ticker.price)
                       ELSE TradePnl(wk[w].symbol, wk[w].direction, wk[w].price, ticker.price)
            IN  /\ wk' = [wk EXCEPT ![w].pc = "upd", ![w].pnl = pnl,
                                    ![w].exit_side = IF variant = "engine"
                                                     THEN EngineExitSide(wk[w].direction)
                                                     ELSE IF BINANCE_TESTNET_FLAG
                                                     THEN ExitSide(wk[w].direction) ELSE "none"]
                /\ upd' = [upd EXCEPT ![w] = NewCall("pnl", wk[w].chat, pnl, "stats")]
                /\ lock' = IF CanAcquireNow THEN w ELSE lock
    /\ UNCHANGED <<pnl_file, stats_file, calls, overwritten, pnlLog, statsLog, contended,
                   calc, cfgVars, received, message_queue, proc, symbol_queue,
                   pending_symbols, processing_symbols, mcapVars>>

\* a reply of trade() returns or raises (the trade summary is sent as soon as
\* the two updates have returned).  A raise is caught by the enclosing
\* handler, which sends a reply of its own; a raise in the outermost handler
\* leaves trade() through its finally and ends the worker, whose loop has no
\* handler.  On return the worker acknowledges the item and waits again.
\* TradingEngine sends its replies through helpers that log a failed send, so
\* its worker always goes on.
TradeReplied(w, ok) ==
    /\ wk[w].pc = "reply" \/ (wk[w].pc = "upd" /\ upd[w].pc = "idle")
    /\ IF ~ok /\ wk[w].h > 0
       THEN /\ wk' = [wk EXCEPT ![w].pc = "reply", ![w].h = wk[w].h - 1]
            /\ UNCHANGED processing_symbols
       ELSE /\ processing_symbols' = ProcessingRemoved(wk[w].symbol)
            /\ wk' = [wk EXCEPT ![w] = IF ok \/ variant = "engine" THEN IdleWorker
                                       ELSE [IdleWorker EXCEPT !.pc = "dead",
                                                               !.symbol = wk[w].symbol]]
    /\ UNCHANGED <<storeVars, calc, cfgVars, received, message_queue, proc, symbol_queue,
                   pending_symbols, mcapVars>>

\* QueueManager.worker: execute_trade returns or raises; the finally removes
\* the symbol and acknowledges the item; an exception ends the worker
AppTradeEnds(w, ok) ==
    /\ wk[w].pc = "trade"
    /\ processing_symbols' = ProcessingRemoved(wk[w].symbol)
    /\ wk' = [wk EXCEPT ![w] = IF ok THEN IdleWorker
                               ELSE [IdleWorker EXCEPT !.pc = "dead", !.symbol = wk[w].symbol]]
    /\ UNCHANGED <<storeVars, calc, cfgVars, received, message_queue, proc, symbol_queue,
                   pending_symbols, mcapVars>>

(***************************************************************************)
(* Shutdown, the clock and the market-cap refresh loop.                    *)
(***************************************************************************)
InCycle(w) == wk[w].pc \in {"trade", "hold", "upd", "reply"}

\* cleanup: every worker task and the processor are cancelled.  The
\* CancelledError passes the `except Exception` handlers and runs the finally
\* blocks: a worker inside a trade removes its symbol from processing_symbols,
\* an update call in progress releases the lock and leaves the file as it is.
Shutdown ==
    /\ variant \in Variants
    /\ proc.pc # "cancelled"
    /\ proc' = [IdleProc EXCEPT !.pc = "cancelled"]
    /\ wk' = [w \in Workers |-> IF wk[w].pc = "dead" THEN wk[w]
                                ELSE [IdleWorker EXCEPT !.pc = "cancelled"]]
    /\ processing_symbols' = processing_symbols \ {wk[w].symbol : w \in {x \in Workers : InCycle(x)}}
    /\ upd' = [w \in Workers |-> IdleCall]
    /\ lock' = 0
    /\ mcap_wake' = 0
    /\ UNCHANGED <<pnl_file, stats_file, calls, overwritten, pnlLog, statsLog, contended,
                   calc, cfgVars, received, message_queue, symbol_queue, pending_symbols,
                   mcap_file, clock>>

\* time passes
Tick ==
    /\ variant \in Variants
    /\ clock < Len(Times)
    /\ clock' = clock + 1
    /\ UNCHANGED <<storeVars, calc, cfgVars, received, message_queue, proc, tradeVars,
                   mcap_file, mcap_wake>>

\* the first instant of Times at which a sleep of MARKETCAP_UPDATE_INTERVAL
\* started now is over, 0 if it is beyond the instants considered
WakeAfterSleep ==
    LET later == {i \in 1..Len(Times) : Times[i] >= now + MARKETCAP_UPDATE_INTERVAL}
    IN  IF later = {} THEN 0 ELSE CHOOSE i \in later : \A j \in later : i <= j

\* update_market_cap_loop: one iteration, then the sleep
MarketCapLoop(fetched) ==
    /\ variant \in {"app", "modules"}
    /\ mcap_wake # 0
    /\ mcap_wake <= clock
    /\ mcap_file' = IF fetched # <<>> THEN SavedSnapshot(fetched) ELSE mcap_file
    /\ mcap_wake' = WakeAfterSleep
    /\ UNCHANGED <<storeVars, calc, cfgVars, received, message_queue, proc, tradeVars, clock>>

(***************************************************************************)
(* Spec: the pipeline from a received message to the recorded trade.       *)
(***************************************************************************)
Init ==
    /\ StoreInit
    /\ calc = NoCalc
    /\ PipeStart
    /\ variant \in Variants
    /\ BINANCE_TESTNET_FLAG \in BOOLEAN

Next ==
    \/ \E chat \in SourceChats, forwarded \in BOOLEAN : Receive(chat, forwarded)
    \/ ProcGet
    \/ LlmError
    \/ \E sentiment \in Sentiments, symbols \in CoinLists : LlmAnswer(sentiment, symbols)
    \/ \E sentiment \in Sentiments, symbols \in CoinLists, fetched \in FetchResults :
          EngineLlmAnswer(sentiment, symbols, fetched)
    \/ \E ok \in BOOLEAN : AnalysisReplied(ok)
    \/ \E ok \in BOOLEAN : ErrorReplied(ok)
    \/ \E fetched \in FetchResults : ExamineSymbol(fetched)
    \/ SymbolsDone
    \/ \E ok \in BOOLEAN : NoticeReplied(ok)
    \/ \E w \in Workers, ticker \in TickerAnswers(EntryQuotes), order_ok \in BOOLEAN :
          Dequeue(w, ticker, order_ok)
    \/ \E w \in Workers, ticker \in TickerAnswers(ExitQuotes), order_ok \in BOOLEAN :
          HoldOver(w, ticker, order_ok)
    \/ \E w \in Workers, ok \in BOOLEAN : TradeReplied(w, ok)
    \/ \E w \in Workers, ok \in BOOLEAN : AppTradeEnds(w, ok)
    \/ \E w \in Workers : AcquireLock(w) /\ variant \in Variants
    \/ \E w \in Workers : LoadAndUpdate(w) /\ variant \in Variants
    \/ \E w \in Workers : SaveOpen(w) /\ variant \in Variants
    \/ \E w \in Workers : SaveWrite(w) /\ variant \in Variants
    \/ Shutdown
    \/ Tick
    \/ \E fetched \in FetchResults : MarketCapLoop(fetched)

Spec == Init /\ [][Next]_vars

(***************************************************************************)
(* SpecMcap: the market-cap tracker on its own: get_top_market_cap on an   *)
(* answer of the endpoint, and is_top_market_cap lookups against a         *)
(* snapshot left on disk at an earlier instant.                            *)
(***************************************************************************)
\* number of is_top_market_cap lookups followed
MaxLookups == 2

\* the coins the endpoint may list: two entries with the symbol btc (one in
\* upper case), eth, and two stablecoins (by symbol, by name)
Coins ==
    { [symbol |-> <<"b", "t", "c">>, name |-> <<"B", "i", "t">>],
      [symbol |-> <<"B", "T", "C">>, name |-> <<"B", "i", "t", "2">>],
      [symbol |-> <<"e", "t", "h">>, name |-> <<"E", "t", "h">>],
      [symbol |-> <<"u", "s", "d", "t">>, name |-> <<"T">>],
      [symbol |-> <<"x">>, name |-> <<"D", "a", "i">>] }

\* longest answer of the endpoint considered
MaxCoins == 3

\* the answers of the endpoint: a failed request, or a list of coins
Responses ==
    {[ok |-> FALSE, data |-> <<>>]}
        \cup {[ok |-> TRUE, data |-> d] :
                d \in UNION {[1..n -> Coins] : n \in 0..MaxCoins}}

\* the answers a lookup may get when it has to ask: a failed request, an
\* empty list, or a single coin
LookupResponses == {r \in Responses : Len(r.data) <= 1}

BTCUSDTChars == <<"B", "T", "C", "U", "S", "D", "T">>

ETHUSDTChars == <<"E", "T", "H", "U", "S", "D", "T">>

\* instants at which an earlier run may have saved the snapshot
SavedAt == {0, 1, 2}

\* no lookup made yet
NoLookup == [pc |-> "mcap", lookups |-> 0, response |-> [ok |-> FALSE, data |-> <<>>],
             result |-> <<>>, symbol |-> <<>>, answer |-> FALSE, fetched |-> FALSE,
             before |-> NoSnapshot, at |-> 0]

\* get_top_market_cap() is called and the endpoint answers `response`
McapFetch(response) ==
    /\ calc.pc = "mcap"
    /\ calc.lookups = 0
    /\ calc' = [calc EXCEPT !.pc = "fetched", !.response = response,
                            !.result = get_top_market_cap(response)]
    /\ UNCHANGED <<storeVars, pipeVars>>

\* is_top_market_cap(symbol) is called; the endpoint would answer `response`
McapLookup(symbol, response) ==
    /\ calc.pc = "mcap"
    /\ calc.lookups < MaxLookups
    /\ LET fetched == get_top_market_cap(response)
       IN  /\ calc' = [calc EXCEPT !.lookups = calc.lookups + 1, !.response = response,
                                   !.result = IF CacheFresh THEN <<>> ELSE fetched,
                                   !.symbol = symbol,
                                   !.answer = is_top_market_cap(symbol, fetched),
                                   !.fetched = ~CacheFresh,
                                   !.before = mcap_file, !.at = now]
           /\ mcap_file' = SnapshotAfterLookup(fetched)
    /\ UNCHANGED <<storeVars, cfgVars, received, message_queue, proc, tradeVars, mcap_wake,
                   clock>>

\* time passes between two lookups
McapTick ==
    /\ calc.pc = "mcap"
    /\ clock < Len(Times)
    /\ clock' = clock + 1
    /\ UNCHANGED <<storeVars, calc, cfgVars, received, message_queue, proc, tradeVars,
                   mcap_file, mcap_wake>>

InitMcap ==
    /\ StoreInit
    /\ TasksStart
    /\ variant = "none"
    /\ BINANCE_TESTNET_FLAG = FALSE
    /\ mcap_wake = 0
    /\ clock \in 1..Len(Times)
    /\ mcap_file \in {NoSnapshot}
          \cup {[st |-> "json", timestamp |-> t, symbols |-> l] :
                  t \in SavedAt, l \in {<<BTCUSDTChars>>, <<ETHUSDTChars>>}}
    /\ calc = NoLookup

NextMcap ==
    \/ \E response \in Responses : McapFetch(response)
    \/ \E symbol \in {BTCUSDTChars, ETHUSDTChars}, response \in LookupResponses :
          McapLookup(symbol, response)
    \/ McapTick

SpecMcap == InitMcap /\ [][NextMcap]_vars

(***************************************************************************)
(* SpecRetry: retry_api_call of BinanceClient (binance_client.py) and of   *)
(* BinanceTrader (modules/binance_trader.py) around one exchange operation.*)
(***************************************************************************)
\* MAX_RETRIES
MAX_RETRIES == 5

\* RETRY_AFTER (seconds)
RETRY_AFTER == 2

\* how a call of the wrapped operation may end: it raises BinanceAPIException,
\* raises another Exception, or returns a value (which may be None)
CallOutcomes ==
    {[kind |-> "BinanceAPIException", value |-> "None"],
     [kind |-> "Exception", value |-> "None"],
     [kind |-> "return", value |-> "order"],
     [kind |-> "return", value |-> "None"]}

\* the two implementations
RetryImpls == {"BinanceClient", "BinanceTrader"}

\* a plausible slip: one call more than the limit
RetriesOneMore == MAX_RETRIES + 1

\* retries = MAX_RETRIES or 3
Retries == IF MAX_RETRIES # 0 THEN MAX_RETRIES ELSE 3

\* delay = RETRY_AFTER or 2
Delay == IF RETRY_AFTER # 0 THEN RETRY_AFTER ELSE 2

RECURSIVE Pow2(_)
Pow2(n) == IF n = 0 THEN 1 ELSE 2 * Pow2(n - 1)

\* the time.sleep after a call that raised, attempt counted from 0:
\* BinanceTrader always sleeps delay; BinanceClient sleeps delay * 2 ** attempt
\* after a BinanceAPIException, delay after another exception, and does not
\* sleep after the last attempt
SleepAfter(impl, kind, attempt) ==
    IF impl = "BinanceTrader" THEN Delay
    ELSE IF attempt >= Retries - 1 THEN 0
    ELSE IF kind = "BinanceAPIException" THEN Delay * Pow2(attempt)
    ELSE Delay

\* one iteration of `for attempt in range(retries)`: the operation is called;
\* its value is returned, or the exception is logged and the loop sleeps; after
\* the last iteration None is returned
RetryAttempt(outcome) ==
    /\ calc.pc = "retry"
    /\ calc.attempt < Retries
    /\ calc' = IF outcome.kind = "return"
               THEN [calc EXCEPT !.pc = "returned", !.result = outcome.value,
                                 !.history = Append(calc.history, outcome)]
               ELSE [calc EXCEPT !.pc = IF calc.attempt + 1 < Retries
                                        THEN "retry" ELSE "returned",
                                 !.attempt = calc.attempt + 1,
                                 !.slept = calc.slept
                                             + SleepAfter(calc.impl, outcome.kind, calc.attempt),
                                 !.result = "None",
                                 !.history = Append(calc.history, outcome)]
    /\ UNCHANGED <<storeVars, pipeVars>>

InitRetry ==
    /\ StoreInit
    /\ PipeIdle
    /\ \E impl \in RetryImpls :
          calc = [pc |-> "retry", impl |-> impl, attempt |-> 0, slept |-> 0,
                  result |-> "None", history |-> <<>>]

NextRetry == \E outcome \in CallOutcomes : RetryAttempt(outcome)

SpecRetry == InitRetry /\ [][NextRetry]_vars

(***************************************************************************)
(* SpecListen: message_handler (app.py) / my_handler (run_cryptopulse.py)  *)
(* and MessageProcessor.run_processor followed message by message.         *)
(* Messages are numbered in the order the listener receives them; the      *)
(* record keeps, per message, the LLM requests made, the error replies     *)
(* attempted and sent, and the trade signals queued.                       *)
(***************************************************************************)
Msgs == 1..MaxMessages

\* how the one session.post of analyze_sentiment may end; every outcome but
\* "content" is returned as (None, error)
LlmOutcomes == {"content", "status", "network", "empty"}

\* how process_trading_symbols may end after a triggering sentiment
TradingOutcomes == {"none", "queued", "raise", "queued_raise"}

NoMessages ==
    [pc |-> "listen", arrived |-> 0, forwarding |-> {}, queue |-> <<>>,
     cur |-> 0, at |-> "get", analysed |-> <<>>,
     requests |-> [m \in Msgs |-> 0], tries |-> [m \in Msgs |-> 0],
     sent |-> [m \in Msgs |-> 0], signals |-> [m \in Msgs |-> 0],
     llm_failed |-> {}, raised |-> {}]

\* a plausible slip: the loop of run_processor has no handler
AfterLoopHandlerAbsent == "ended"

\* run_processor: `except Exception` logs, the finally acknowledges the item
\* and the loop waits on the queue again
AfterLoopHandler == "get"

\* a plausible slip: no `return` after the error reply
AfterErrorReplyFallsThrough == "reply"

\* process_message: `if error: await send_error_message(...); return`
AfterErrorReply == "get"

\* the handler is invoked for a new message and awaits message.forward;
\* the dispatcher runs handler invocations as concurrent tasks
HandlerStarts ==
    /\ calc.pc = "listen"
    /\ calc.arrived < MaxMessages
    /\ calc' = [calc EXCEPT !.arrived = calc.arrived + 1,
                            !.forwarding = calc.forwarding \cup {calc.arrived + 1}]
    /\ UNCHANGED <<storeVars, pipeVars>>

\* message.forward returns and (forwarded_message, message) is put on the
\* queue, or it raises and the message is dropped with a log line
HandlerForwarded(m, ok) ==
    /\ calc.pc = "listen"
    /\ m \in calc.forwarding
    /\ calc' = [calc EXCEPT !.forwarding = calc.forwarding \ {m},
                            !.queue = IF ok THEN Append(calc.queue, m) ELSE calc.queue]
    /\ UNCHANGED <<storeVars, pipeVars>>

\* message_queue.get() returns; process_message posts the LLM request
ProcessorGets ==
    /\ calc.pc = "listen"
    /\ calc.at = "get"
    /\ calc.queue # <<>>
    /\ LET m == Head(calc.queue)
       IN  calc' = [calc EXCEPT !.queue = Tail(calc.queue), !.cur = m, !.at = "llm",
                                !.analysed = Append(calc.analysed, m),
                                !.requests[m] = calc.requests[m] + 1]
    /\ UNCHANGED <<storeVars, pipeVars>>

\* analyze_sentiment returns (content, None) or (None, error); on an error
\* send_error_message is called, otherwise send_reply_message
LlmReturns(outcome) ==
    /\ calc.pc = "listen"
    /\ calc.at = "llm"
    /\ calc' = IF outcome = "content"
               THEN [calc EXCEPT !.at = "reply"]
               ELSE [calc EXCEPT !.at = "errmsg",
                                 !.llm_failed = calc.llm_failed \cup {calc.cur},
                                 !.tries[calc.cur] = calc.tries[calc.cur] + 1]
    /\ UNCHANGED <<storeVars, pipeVars>>

\* the handler of process_message: send_error_message with the exception text
RaisedInProcessMessage(c) ==
    [c EXCEPT !.at = "handler", !.raised = c.raised \cup {c.cur},
              !.tries[c.cur] = c.tries[c.cur] + 1]

\* the item is done: the loop of run_processor waits on the queue
ItemDone(c, at) == [c EXCEPT !.at = at, !.cur = IF at = "get" THEN 0 ELSE c.cur]

\* the error reply for a failed LLM call returns (process_message returns)
\* or raises (the handler of process_message sends an error reply)
LlmErrorReplied(ok) ==
    /\ calc.pc = "listen"
    /\ calc.at = "errmsg"
    /\ calc' = IF ok
               THEN ItemDone([calc EXCEPT !.sent[calc.cur] = calc.sent[calc.cur] + 1],
                             AfterErrorReply)
               ELSE RaisedInProcessMessage(calc)
    /\ UNCHANGED <<storeVars, pipeVars>>

\* the error reply of the handler of process_message returns, or raises into
\* the handler of run_processor
HandlerReplied(ok) ==
    /\ calc.pc = "listen"
    /\ calc.at = "handler"
    /\ calc' = IF ok
               THEN ItemDone([calc EXCEPT !.sent[calc.cur] = calc.sent[calc.cur] + 1], "get")
               ELSE ItemDone(calc, AfterLoopHandler)
    /\ UNCHANGED <<storeVars, pipeVars>>

\* the analysis reply returns or raises; then the sentiment is parsed and
\* process_trading_symbols runs when it triggers: it may queue a signal and
\* any of its awaited calls may raise
AnalysisSent(ok, triggers, trading) ==
    /\ calc.pc = "listen"
    /\ calc.at = "reply"
    /\ LET queued == IF ok /\ triggers /\ trading \in {"queued", "queued_raise"}
                     THEN [calc EXCEPT !.signals[calc.cur] = calc.signals[calc.cur] + 1]
                     ELSE calc
       IN  calc' = IF ~ok \/ (triggers /\ trading \in {"raise", "queued_raise"})
                   THEN RaisedInProcessMessage(queued)
                   ELSE ItemDone(queued, "get")
    /\ UNCHANGED <<storeVars, pipeVars>>

InitListen ==
    /\ StoreInit
    /\ PipeIdle
    /\ calc = NoMessages

ProcessorStep ==
    \/ ProcessorGets
    \/ \E outcome \in LlmOutcomes : LlmReturns(outcome)
    \/ \E ok \in BOOLEAN : LlmErrorReplied(ok)
    \/ \E ok \in BOOLEAN : HandlerReplied(ok)
    \/ \E ok, triggers \in BOOLEAN, trading \in TradingOutcomes :
          AnalysisSent(ok, triggers, trading)

NextListen ==
    \/ HandlerStarts
    \/ \E m \in Msgs, ok \in BOOLEAN : HandlerForwarded(m, ok)
    \/ ProcessorStep

SpecListen == InitListen /\ [][NextListen]_vars

\* every awaited call of the processor returns or raises, and the event loop
\* then resumes the processor task
SpecListenLive == SpecListen /\ WF_vars(ProcessorStep)

(***************************************************************************)
(* SpecValid: SentimentValidator.validate_response (sentiment_validator.py)*)
(* applied to one LLM response by a fresh validator.                       *)
(*                                                                         *)
(* The confidences are Python floats.  They are held exactly, and the sum  *)
(* and the quotient are rounded as binary64 rounds them, so that the       *)
(* comparison with min_confidence decides as the code decides.             *)
(***************************************************************************)
\* binary64 values in [2^-9, 4), and 0, held exactly: a sequence of Limbs
\* digits in base 2^LimbBits, least significant first, in units of
\* 2^-UnitBits
LimbBits == 11
Limbs == 6
UnitBits == 62
MantissaBits == 53
LimbBase == Pow2(LimbBits)

\* the integer n (0 <= n < 8)
IntFloat(n) ==
    [i \in 1..Limbs |-> IF i = Limbs THEN n * Pow2(UnitBits - LimbBits * (Limbs - 1)) ELSE 0]

\* the exact sum, carried from the least significant digit up
ExactAdd(a, b) ==
    LET R[i \in 0..Limbs] ==
            IF i = 0 THEN [carry |-> 0, digits |-> <<>>]
            ELSE LET prev == R[i - 1]
                     t == a[i] + b[i] + prev.carry
                 IN  [carry |-> t \div LimbBase,
                      digits |-> Append(prev.digits, t % LimbBase)]
    IN  R[Limbs].digits

\* floor(a / n) by long division from the most significant digit down, and
\* whether a remainder was left
ExactDivide(a, n) ==
    LET R[i \in 1..(Limbs + 1)] ==
            IF i = Limbs + 1 THEN [rem |-> 0, digits |-> <<>>]
            ELSE LET prev == R[i + 1]
                     t == LimbBase * prev.rem + a[i]
                 IN  [rem |-> t % n, digits |-> <<t \div n>> \o prev.digits]
    IN  [q |-> R[1].digits, sticky |-> R[1].rem # 0]

\* number of significant bits (0 for zero)
BitLength(a) ==
    IF \A i \in 1..Limbs : a[i] = 0 THEN 0
    ELSE LET top == CHOOSE i \in 1..Limbs : a[i] # 0 /\ \A j \in (i + 1)..Limbs : a[j] = 0
             k == CHOOSE k \in 1..LimbBits : Pow2(k - 1) <= a[top] /\ a[top] < Pow2(k)
         IN  LimbBits * (top - 1) + k

\* round to nearest, ties to even, to MantissaBits significant bits; for the
\* values held here the bits dropped all lie in the lowest digit
RoundNearestEven(a, sticky) ==
    LET d == BitLength(a) - MantissaBits
    IN  IF d <= 0 THEN a
        ELSE LET dropped == a[1] % Pow2(d)
                 half == Pow2(d - 1)
                 odd == IF d < LimbBits THEN (a[1] \div Pow2(d)) % 2 = 1 ELSE a[2] % 2 = 1
                 kept == [a EXCEPT ![1] = a[1] - dropped]
                 ulp == [i \in 1..Limbs |-> IF i = 1 THEN Pow2(d) % LimbBase
                                           ELSE IF i = 2 THEN Pow2(d) \div LimbBase ELSE 0]
             IN  IF dropped > half \/ (dropped = half /\ (sticky \/ odd))
                 THEN ExactAdd(kept, ulp) ELSE kept

\* a + b in binary64
FloatAdd(a, b) == RoundNearestEven(ExactAdd(a, b), FALSE)

\* a / n in binary64, n a small integer
FloatDiv(a, n) ==
    LET r == ExactDivide(a, n)
    IN  RoundNearestEven(r.q, r.sticky)

\* the literal d/10 (0.7 is Tenths(7))
Tenths(d) == FloatDiv(IntFloat(d), 10)

\* a >= b
FloatGE(a, b) ==
    \/ a = b
    \/ \E i \in 1..Limbs : a[i] > b[i] /\ \A j \in (i + 1)..Limbs : a[j] = b[j]

\* a >= b for exact values
AtLeast(a, b) == FloatGE(a, b)

\* the length limit of validate_response
RESPONSE_LIMIT == 10000

\* max_symbols and min_confidence as constructed by default
max_symbols == 10

min_confidence == Tenths(7)

\* most symbols a modelled Coins field names
MaxSymbols == 2

\* the texts the modelled responses are made of
ScriptTag == <<"<", "s", "c", "r", "i", "p", "t", ">">>

CoinsLabel == <<"C", "o", "i", "n", "s", ":", " ">>

SentimentLabel == <<"S", "e", "n", "t", "i", "m", "e", "n", "t", ":", " ">>

ExplanationLabel == <<"E", "x", "p", "l", "a", "n", "a", "t", "i", "o", "n", ":", " ">>

NotApplicable == <<"N", "/", "A">>

USDTChars == <<"U", "S", "D", "T">>

USDCChars == <<"U", "S", "D", "C">>

BUSDChars == <<"B", "U", "S", "D">>

\* symbol texts of a Coins field: a known symbol, an unknown one in lower
\* case, one with a digit, one of a single letter, a coin name, and N/A
SymbolTexts ==
    {<<"B", "T", "C">>, <<"z", "z", "z">>, <<"B", "1">>, <<"X">>,
     <<"S", "o", "l", "a", "n", "a">>, NotApplicable}

CoinsFields ==
    {[present |-> FALSE, list |-> <<>>]}
        \cup {[present |-> TRUE, list |-> l] :
                 l \in UNION {[1..n -> SymbolTexts] : n \in 1..MaxSymbols}}

\* sentiment percentages of a Sentiment field
SentimentFields ==
    {[present |-> FALSE, value |-> 0]}
        \cup {[present |-> TRUE, value |-> v] : v \in {-101, -100, -90, 3, 50, 90, 100, 150}}

\* length of the text after "Explanation: "; NoExplanation when the
\* response has no such field
NoExplanation == 0 - 1

ExplanationLengths == {NoExplanation, 10, 100, 1500, 9990}

\* a response: an optional <script> tag, the Coins line, the Sentiment line,
\* the explanation, and an optional <script> tag at the very end
LlmResponses ==
    [front : BOOLEAN, coins : CoinsFields, sentiment : SentimentFields,
     explanation : ExplanationLengths, tail : BOOLEAN]

RECURSIVE JoinedLength(_)
\* len(", ".join(list))
JoinedLength(list) ==
    IF list = <<>> THEN 0
    ELSE IF Len(list) = 1 THEN Len(Head(list))
    ELSE Len(Head(list)) + 2 + JoinedLength(Tail(list))

\* number of characters of the number and its % sign
PercentLength(v) ==
    (IF v < 0 THEN 1 ELSE 0)
        + (IF Abs(v) >= 100 THEN 3 ELSE IF Abs(v) >= 10 THEN 2 ELSE 1) + 1

\* offset at which the explanation text (or, without one, the end tag) starts
ExplanationStart(response) ==
    (IF response.front THEN Len(ScriptTag) ELSE 0)
        + (IF response.coins.present
           THEN Len(CoinsLabel) + JoinedLength(response.coins.list) + 1 ELSE 0)
        + (IF response.sentiment.present
           THEN Len(SentimentLabel) + PercentLength(response.sentiment.value) + 1 ELSE 0)
        + (IF response.explanation # NoExplanation THEN Len(ExplanationLabel) ELSE 0)

\* len(llm_response)
ResponseLength(response) ==
    ExplanationStart(response)
        + (IF response.explanation # NoExplanation THEN response.explanation ELSE 0)
        + (IF response.tail THEN Len(ScriptTag) ELSE 0)

\* llm_response[:10000] when the response is longer than the limit: the end
\* tag survives only whole, and what is left of it counts as explanation
\* text (the fields before the explanation are short)
Truncate(response) ==
    IF ResponseLength(response) > RESPONSE_LIMIT
    THEN [response EXCEPT !.tail = FALSE,
                          !.explanation = IF response.explanation = NoExplanation
                                          THEN NoExplanation
                                          ELSE RESPONSE_LIMIT - ExplanationStart(response)]
    ELSE response

\* _check_security_violations: some SUSPICIOUS_PATTERNS entry is found
check_security_violations(response) == response.front \/ response.tail

\* _extract_and_validate_sentiment: [value, confidence], value "None" when
\* SENTIMENT_PATTERN does not match or the value is out of range
extract_and_validate_sentiment(response) ==
    IF ~response.sentiment.present
    THEN [present |-> FALSE, value |-> 0, confidence |-> IntFloat(0)]
    ELSE LET v == response.sentiment.value
         IN  IF ~(-100 <= v /\ v <= 100)
             THEN [present |-> FALSE, value |-> 0, confidence |-> IntFloat(0)]
             ELSE [present |-> TRUE, value |-> v,
                   confidence |-> IF Abs(v) > 95 THEN Tenths(5)
                                  ELSE IF Abs(v) > 80 THEN Tenths(7)
                                  ELSE IF Abs(v) < 5 THEN Tenths(6)
                                  ELSE IntFloat(1)]

\* str.endswith
EndsWith(str, suffix) ==
    Len(str) >= Len(suffix)
        /\ SubSeq(str, Len(str) - Len(suffix) + 1, Len(str)) = suffix

RECURSIVE Without(_, _)
\* str.replace(sub, '')
Without(str, sub) ==
    IF Len(str) < Len(sub) THEN str
    ELSE IF SubSeq(str, 1, Len(sub)) = sub
    THEN Without(SubSeq(str, Len(sub) + 1, Len(str)), sub)
    ELSE <<Head(str)>> \o Without(Tail(str), sub)

KNOWN_SYMBOLS ==
    {<<"B", "T", "C">>,
     <<"E", "T", "H">>,
     <<"B", "N", "B">>,
     <<"X", "R", "P">>,
     <<"A", "D", "A">>,
     <<"S", "O", "L">>,
     <<"D", "O", "T">>,
     <<"D", "O", "G", "E">>,
     <<"A", "V", "A", "X">>,
     <<"S", "H", "I", "B">>,
     <<"M", "A", "T", "I", "C">>,
     <<"U", "N", "I">>,
     <<"L", "I", "N", "K">>,
     <<"A", "T", "O", "M">>,
     <<"L", "T", "C">>,
     <<"B", "C", "H">>,
     <<"F", "T", "T">>,
     <<"N", "E", "A", "R">>,
     <<"A", "L", "G", "O">>,
     <<"M", "A", "N", "A">>,
     <<"S", "A", "N", "D">>,
     <<"C", "R", "O">>,
     <<"A", "P", "E">>,
     <<"F", "L", "O", "W">>,
     <<"I", "C", "P">>,
     <<"V", "E", "T">>,
     <<"H", "B", "A", "R">>,
     <<"F", "I", "L">>,
     <<"E", "G", "L", "D">>,
     <<"X", "T", "Z">>,
     <<"T", "H", "E", "T", "A">>,
     <<"A", "X", "S">>,
     <<"E", "O", "S">>,
     <<"A", "A", "V", "E">>,
     <<"B", "S", "V">>,
     <<"G", "R", "T">>,
     <<"K", "C", "S">>,
     <<"R", "U", "N", "E">>,
     <<"X", "L", "M">>,
     <<"K", "L", "A", "Y">>}

symbol_map ==
    {<<<<"B", "I", "T", "C", "O", "I", "N">>, <<"B", "T", "C">>>>,
     <<<<"E", "T", "H", "E", "R", "E", "U", "M">>, <<"E", "T", "H">>>>,
     <<<<"B", "I", "N", "A", "N", "C", "E">>, <<"B", "N", "B">>>>,
     <<<<"R", "I", "P", "P", "L", "E">>, <<"X", "R", "P">>>>,
     <<<<"C", "A", "R", "D", "A", "N", "O">>, <<"A", "D", "A">>>>,
     <<<<"S", "O", "L", "A", "N", "A">>, <<"S", "O", "L">>>>,
     <<<<"D", "O", "G", "E", "C", "O", "I", "N">>, <<"D", "O", "G", "E">>>>,
     <<<<"P", "O", "L", "Y", "G", "O", "N">>, <<"M", "A", "T", "I", "C">>>>}

\* _normalize_symbol: <<>> stands for None
normalize(symbol) ==
    IF Len(symbol) < 2 THEN <<>>
    ELSE LET mapped == IF \E e \in symbol_map : e[1] = Upper(symbol)
                       THEN (CHOOSE e \in symbol_map : e[1] = Upper(symbol))[2]
                       ELSE Upper(symbol)
         IN  IF EndsWith(mapped, USDTChars) \/ EndsWith(mapped, USDCChars)
                \/ EndsWith(mapped, BUSDChars)
             THEN mapped ELSE mapped \o USDTChars

\* only letters A-Z
IsUpperAlpha(str) == \A i \in 1..Len(str) : \E k \in 1..Len(UpperCase) : UpperCase[k] = str[i]

\* VALID_SYMBOL_PATTERN.match: ^[A-Z]{2,10}(USDT|USDC|BUSD)?$
MatchesValidSymbol(str) ==
    /\ IsUpperAlpha(str)
    /\ \/ (2 <= Len(str) /\ Len(str) <= 10)
       \/ /\ EndsWith(str, USDTChars) \/ EndsWith(str, USDCChars) \/ EndsWith(str, BUSDChars)
          /\ 2 <= Len(str) - 4 /\ Len(str) - 4 <= 10

RECURSIVE ScoreSymbols(_)
\* the loop over raw_symbols: the valid symbols and the confidence scores
ScoreSymbols(raw_symbols) ==
    IF raw_symbols = <<>> THEN [valid |-> <<>>, scores |-> <<>>]
    ELSE LET rest == ScoreSymbols(Tail(raw_symbols))
             normalized == normalize(Head(raw_symbols))
         IN  IF normalized = <<>> THEN rest
             ELSE IF ~MatchesValidSymbol(normalized)
             THEN [valid |-> rest.valid, scores |-> <<IntFloat(0)>> \o rest.scores]
             ELSE LET base == Without(Without(Without(normalized, USDTChars), USDCChars),
                                      BUSDChars)
                  IN  [valid |-> <<normalized>> \o rest.valid,
                       scores |-> <<IF base \in KNOWN_SYMBOLS THEN IntFloat(1) ELSE Tenths(7)>>
                                      \o rest.scores]

RECURSIVE FloatSum(_, _)
\* sum(confidence_scores), added left to right
FloatSum(scores, acc) ==
    IF scores = <<>> THEN acc ELSE FloatSum(Tail(scores), FloatAdd(acc, Head(scores)))

\* _extract_and_validate_symbols: [present, symbols, confidence], present
\* FALSE for None
extract_and_validate_symbols(response) ==
    IF ~response.coins.present
    THEN [present |-> FALSE, symbols |-> <<>>, confidence |-> IntFloat(0)]
    ELSE IF response.coins.list = <<NotApplicable>>
    THEN [present |-> TRUE, symbols |-> <<>>, confidence |-> IntFloat(1)]
    ELSE LET upper == [i \in 1..Len(response.coins.list) |-> Upper(response.coins.list[i])]
             named == SelectSeq(upper, LAMBDA s : s # NotApplicable)
             raw_symbols == SubSeq(named, 1, Min(Len(named), max_symbols))
             r == ScoreSymbols(raw_symbols)
         IN  [present |-> TRUE, symbols |-> r.valid,
              confidence |-> IF r.scores = <<>> THEN IntFloat(0)
                             ELSE FloatDiv(FloatSum(r.scores, IntFloat(0)), Len(r.scores))]

\* _validate_explanation
validate_explanation(response) ==
    IF response.explanation = NoExplanation \/ response.explanation = 0 THEN IntFloat(0)
    ELSE IF response.explanation < 20 THEN Tenths(3)
    ELSE IF response.explanation > 1000 THEN Tenths(7)
    ELSE IntFloat(1)

\* the explanation confidence used by validate_response
explanation_confidence(response, require_explanation) ==
    IF require_explanation THEN validate_explanation(response) ELSE IntFloat(1)

\* _determine_error_type
determine_error_type(sentiment, symbols, confident) ==
    IF ~sentiment.present /\ (~symbols.present \/ symbols.symbols = <<>>) THEN "NO_DATA"
    ELSE IF ~sentiment.present THEN "INVALID_SENTIMENT"
    ELSE IF ~symbols.present THEN "INVALID_SYMBOLS"
    ELSE IF ~confident THEN "INVALID_FORMAT"
    ELSE "VALID"

NoStats ==
    [total_validations |-> 0, successful_validations |-> 0, security_violations |-> 0,
     format_errors |-> 0]

Rejected(validation_result) ==
    [is_valid |-> FALSE, symbols |-> <<>>, has_sentiment |-> FALSE, sentiment |-> 0,
     confidence |-> IntFloat(0), validation_result |-> validation_result]

\* validate_response: the ValidatedSentiment returned and the statistics
validate_response(llm_response, require_explanation, stats) ==
    LET counted == [stats EXCEPT !.total_validations = stats.total_validations + 1]
    IN  IF ResponseLength(llm_response) = 0
        THEN [result |-> Rejected("NO_DATA"), stats |-> counted]
        ELSE LET response == Truncate(llm_response)
             IN  IF check_security_violations(response)
                 THEN [result |-> Rejected("INVALID_FORMAT"),
                       stats |-> [counted EXCEPT !.security_violations =
                                                     counted.security_violations + 1]]
                 ELSE LET sentiment == extract_and_validate_sentiment(response)
                          symbols == extract_and_validate_symbols(response)
                          overall_confidence ==
                              FloatDiv(FloatAdd(FloatAdd(sentiment.confidence,
                                                         symbols.confidence),
                                                explanation_confidence(response,
                                                                       require_explanation)),
                                       3)
                          confident == FloatGE(overall_confidence, min_confidence)
                          is_valid == sentiment.present /\ symbols.present /\ confident
                      IN  [result |->
                              [is_valid |-> is_valid, symbols |-> symbols.symbols,
                               has_sentiment |-> sentiment.present,
                               sentiment |-> sentiment.value,
                               confidence |-> overall_confidence,
                               validation_result |->
                                   IF is_valid THEN "VALID"
                                   ELSE determine_error_type(sentiment, symbols, confident)],
                           stats |->
                              IF is_valid
                              THEN [counted EXCEPT !.successful_validations =
                                                       counted.successful_validations + 1]
                              ELSE [counted EXCEPT !.format_errors =
                                                       counted.format_errors + 1]]

\* one call of validate_response
ValidateResponse ==
    /\ calc.pc = "validate"
    /\ LET r == validate_response(calc.response, calc.require_explanation, calc.stats)
       IN  calc' = [calc EXCEPT !.pc = "validated", !.result = r.result, !.stats = r.stats]
    /\ UNCHANGED <<storeVars, pipeVars>>

InitValid ==
    /\ StoreInit
    /\ PipeIdle
    /\ \E response \in LlmResponses, require_explanation \in BOOLEAN :
          calc = [pc |-> "validate", response |-> response,
                  require_explanation |-> require_explanation, stats |-> NoStats,
                  result |-> Rejected("none")]

NextValid == ValidateResponse

SpecValid == InitValid /\ [][NextValid]_vars

(***************************************************************************)
(* SpecSignal: SignalHandler (utils.py).  The callbacks are numbered in    *)
(* registration order; every signal creates one _shutdown task.            *)
(***************************************************************************)
\* most callbacks registered, most signals received
MaxCallbacks == 3

MaxSignals == 2

\* a callback is a plain function or a coroutine function
CallbackKinds == {"sync", "async"}

\* a plausible slip: no handler around the call, the loop ends at a raise
AfterCallbackRaisedAborts(j, n) == n + 1

\* `except Exception` around the call: the loop goes on with the next callback
AfterCallbackRaised(j, n) == j + 1

RECURSIVE RunCallbacks(_, _, _, _)
\* the loop of _shutdown from callback j up to its next suspension: plain
\* callbacks are called one after the other, returning or raising; a
\* coroutine callback is called and awaited
RunCallbacks(callbacks, j, task, raises) ==
    IF j > Len(callbacks) THEN [task EXCEPT !.at = "done", !.i = j]
    ELSE LET called == [task EXCEPT !.log = Append(task.log, j), !.i = j]
         IN  IF callbacks[j] = "async" THEN [called EXCEPT !.at = "await"]
             ELSE IF raises[j]
             THEN RunCallbacks(callbacks, AfterCallbackRaised(j, Len(callbacks)),
                               [called EXCEPT !.raised = called.raised \cup {j}], raises)
             ELSE RunCallbacks(callbacks, j + 1, called, raises)

\* signal_handler: SIGINT or SIGTERM arrives and a _shutdown task is created
SignalArrives ==
    /\ calc.pc = "signal"
    /\ ~calc.exited
    /\ Len(calc.tasks) < MaxSignals
    /\ calc' = [calc EXCEPT !.tasks = Append(calc.tasks,
                                [at |-> "start", i |-> 0, log |-> <<>>, raised |-> {}])]
    /\ UNCHANGED <<storeVars, pipeVars>>

\* a _shutdown task is resumed: it starts, or the coroutine callback it
\* awaited returned or raised; it runs to its next await, or to exit(0)
ShutdownRuns(t, raises) ==
    /\ calc.pc = "signal"
    /\ ~calc.exited
    /\ t \in 1..Len(calc.tasks)
    /\ calc.tasks[t].at \in {"start", "await"}
    /\ LET task == calc.tasks[t]
           n == Len(calc.callbacks)
           resumed == IF task.at = "start" THEN RunCallbacks(calc.callbacks, 1, task, raises)
                      ELSE IF raises[task.i]
                      THEN RunCallbacks(calc.callbacks, AfterCallbackRaised(task.i, n),
                                        [task EXCEPT !.raised = task.raised \cup {task.i}],
                                        raises)
                      ELSE RunCallbacks(calc.callbacks, task.i + 1, task, raises)
       IN  calc' = [calc EXCEPT !.tasks[t] = resumed, !.exited = resumed.at = "done"]
    /\ UNCHANGED <<storeVars, pipeVars>>

InitSignal ==
    /\ StoreInit
    /\ PipeIdle
    /\ \E callbacks \in UNION {[1..n -> CallbackKinds] : n \in 0..MaxCallbacks} :
          calc = [pc |-> "signal", callbacks |-> callbacks, tasks |-> <<>>,
                  exited |-> FALSE]

NextSignal ==
    \/ SignalArrives
    \/ \E t \in 1..MaxSignals, raises \in [1..MaxCallbacks -> BOOLEAN] : ShutdownRuns(t, raises)

SpecSignal == InitSignal /\ [][NextSignal]_vars

(***************************************************************************)
(* SpecStartup: CryptoPulseApp.main (app.py) from start_app to the         *)
(* background tasks.                                                       *)
(***************************************************************************)
\* most channels in CHAT_ID_LIST
MaxChats == 3

\* the tasks start_tasks creates, in order
BackgroundTasks ==
    <<"workers", "market_cap", "processor", "idle", "bot_commands", "bot_polling">>

\* the application as constructed, watching the channels 1..chats
NotStarted(chats) ==
    [pc |-> "startup", at |-> "start", session |-> FALSE, member |-> FALSE,
     names |-> [i \in 1..chats |-> "none"], next |-> 1,
     started |-> {}, cancelled |-> {}, stopped |-> FALSE]

\* main gives up: `return` runs the finally, cleanup_tasks cancels what was
\* created and stops the session
Aborted(c) == [c EXCEPT !.at = "aborted", !.cancelled = c.started, !.stopped = TRUE]

\* start_app: self.app.start() returns or raises
SessionStart(ok) ==
    /\ calc.pc = "startup"
    /\ calc.at = "start"
    /\ calc' = IF ok THEN [calc EXCEPT !.at = "membership", !.session = TRUE]
               ELSE Aborted(calc)
    /\ UNCHANGED <<storeVars, pipeVars>>

\* check_bot_membership answers True, answers False (not a member, or the
\* lookup raised), or raises
CheckMembership(outcome) ==
    /\ calc.pc = "startup"
    /\ calc.at = "membership"
    /\ calc' = IF outcome = "member" THEN [calc EXCEPT !.at = "names", !.member = TRUE]
               ELSE Aborted(calc)
    /\ UNCHANGED <<storeVars, pipeVars>>

\* get_chat_id_name_dict, one chat: get_chat returns the title, or raises and
\* the chat id is stored as the name; after the last chat start_app returns
\* True, the message handler is registered and start_tasks takes over
ResolveChatName(ok) ==
    /\ calc.pc = "startup"
    /\ calc.at = "names"
    /\ calc' = [calc EXCEPT !.names[calc.next] = IF ok THEN "title" ELSE "id",
                            !.next = calc.next + 1,
                            !.at = IF calc.next = Len(calc.names) THEN "tasks" ELSE "names"]
    /\ UNCHANGED <<storeVars, pipeVars>>

\* start_tasks: the tasks are created in order; when creating task number
\* failing raises, the handler calls cleanup_tasks and main returns
StartTasks(failing) ==
    /\ calc.pc = "startup"
    /\ calc.at = "tasks"
    /\ LET created == {BackgroundTasks[i] : i \in 1..(failing - 1)}
       IN  calc' = IF failing > Len(BackgroundTasks)
                   THEN [calc EXCEPT !.at = "running", !.started = created]
                   ELSE Aborted([calc EXCEPT !.started = created])
    /\ UNCHANGED <<storeVars, pipeVars>>

InitStartup ==
    /\ StoreInit
    /\ PipeIdle
    /\ \E chats \in 1..MaxChats : calc = NotStarted(chats)

NextStartup ==
    \/ \E ok \in BOOLEAN : SessionStart(ok)
    \/ \E outcome \in {"member", "not_member", "raise"} : CheckMembership(outcome)
    \/ \E ok \in BOOLEAN : ResolveChatName(ok)
    \/ \E failing \in 1..(Len(BackgroundTasks) + 1) : StartTasks(failing)

SpecStartup == InitStartup /\ [][NextStartup]_vars

(***************************************************************************)
(* SpecStop: the worker pool of TradingEngine and its shutdown             *)
(* (trading_engine.py).  Trade items are numbered in the order they are    *)
(* queued; 0 stands for the stop signal None.                              *)
(***************************************************************************)
\* most trade items queued in one run
MaxTrades == 3

\* a plausible slip: one stop signal fewer than there are workers
StopSignalsOneShort(workers) == [i \in 1..(workers - 1) |-> 0]

\* stop_workers: `for _ in self.workers: await self.symbol_queue.put(None)`
StopSignals(workers) == [i \in 1..workers |-> 0]

\* start_workers has created NUM_WORKERS tasks, each about to call get()
EngineStarted ==
    [pc |-> "stop", queue |-> <<>>, queued |-> 0, before |-> 0,
     wk |-> [w \in 1..NumWorkers |-> [at |-> "get", item |-> 0]],
     executed |-> [w \in 1..NumWorkers |-> <<>>],
     signals |-> [w \in 1..NumWorkers |-> 0],
     failed |-> {},
     stop |-> "none"]

\* queue_trade puts the next trade item (it may still be called while
\* stop_workers waits)
EngineQueueTrade ==
    /\ calc.pc = "stop"
    /\ calc.queued < MaxTrades
    /\ calc' = [calc EXCEPT !.queued = calc.queued + 1,
                            !.queue = Append(calc.queue, calc.queued + 1)]
    /\ UNCHANGED <<storeVars, pipeVars>>

\* _worker: get() returns the head of the queue; None breaks out of the loop
\* (the finally clause calls task_done), a trade item is handed to
\* _execute_trade
EngineWorkerGet(w) ==
    /\ calc.pc = "stop"
    /\ calc.wk[w].at = "get"
    /\ calc.queue # <<>>
    /\ LET item == Head(calc.queue)
       IN  calc' = [calc EXCEPT
               !.queue = Tail(calc.queue),
               !.wk[w] = IF item = 0 THEN [at |-> "stopped", item |-> 0]
                         ELSE [at |-> "execute", item |-> item],
               !.signals[w] = IF item = 0 THEN calc.signals[w] + 1
                              ELSE calc.signals[w]]
    /\ UNCHANGED <<storeVars, pipeVars>>

\* _worker: _execute_trade returns or raises an Exception (printed); the
\* finally clause calls task_done and the loop calls get() again
EngineTradeDone(w, raised) ==
    /\ calc.pc = "stop"
    /\ calc.wk[w].at = "execute"
    /\ calc' = [calc EXCEPT
           !.wk[w] = [at |-> "get", item |-> 0],
           !.executed[w] = Append(calc.executed[w], calc.wk[w].item),
           !.failed = IF raised THEN calc.failed \cup {calc.wk[w].item}
                      ELSE calc.failed]
    /\ UNCHANGED <<storeVars, pipeVars>>

\* stop_workers up to its gather: the puts on the unbounded queue do not
\* suspend, so the stop signals are queued in one step
StopWorkersPuts ==
    /\ calc.pc = "stop"
    /\ calc.stop = "none"
    /\ calc' = [calc EXCEPT !.queue = calc.queue \o StopSignals(NumWorkers),
                            !.before = calc.queued,
                            !.stop = "gather"]
    /\ UNCHANGED <<storeVars, pipeVars>>

\* stop_workers: gather(*self.workers) completes when every worker task has
\* finished
StopWorkersReturns ==
    /\ calc.pc = "stop"
    /\ calc.stop = "gather"
    /\ \A w \in 1..NumWorkers : calc.wk[w].at = "stopped"
    /\ calc' = [calc EXCEPT !.stop = "returned"]
    /\ UNCHANGED <<storeVars, pipeVars>>

InitStop == StoreInit /\ PipeIdle /\ calc = EngineStarted

EngineWorkerStep ==
    \E w \in 1..NumWorkers :
        \/ EngineWorkerGet(w)
        \/ \E raised \in BOOLEAN : EngineTradeDone(w, raised)

NextStop ==
    \/ EngineQueueTrade
    \/ EngineWorkerStep
    \/ StopWorkersPuts
    \/ StopWorkersReturns

SpecStop == InitStop /\ [][NextStop]_vars

\* every trade cycle terminates, a worker whose get() can return is resumed,
\* and the gather is resumed when the workers have finished
SpecStopLive ==
    /\ SpecStop
    /\ \A w \in 1..NumWorkers :
          /\ WF_vars(EngineWorkerGet(w))
          /\ WF_vars(\E raised \in BOOLEAN : EngineTradeDone(w, raised))
    /\ WF_vars(StopWorkersReturns)

(***************************************************************************)
(* SpecCanon: the ticker canonicalisation of process_trading_symbols /      *)
(* process_trading_decision.  A ticker is a sequence of pieces of text; the *)
(* pieces "sol" and "usdt" are the lower-case spellings of "SOL", "USDT".   *)
(***************************************************************************)
\* most pieces in one ticker
MaxPieces == 3

TickerPieces == {"BTC", "1000", "sol", "USDT", "usdt"}

LowerPieces == {"sol", "usdt"}

\* the tickers the expression [\w, /]+ can deliver, other than "" and "N/A"
ExtractedTickers == UNION {[1..n -> TickerPieces] : n \in 1..MaxPieces}

\* the symbol loop's first statements for one ticker: `if "USDT" not in
\* symbol: symbol += "USDT"`, and what a second pass would make of the result
Canonicalise ==
    /\ calc.pc = "canon"
    /\ calc.at = "ticker"
    /\ calc' = [calc EXCEPT !.at = "symbol",
                            !.symbol = Canon(calc.ticker),
                            !.again = Canon(Canon(calc.ticker))]
    /\ UNCHANGED <<storeVars, pipeVars>>

InitCanon ==
    /\ StoreInit /\ PipeIdle
    /\ \E ticker \in ExtractedTickers :
          calc = [pc |-> "canon", at |-> "ticker", ticker |-> ticker,
                  symbol |-> <<>>, again |-> <<>>]

NextCanon == Canonicalise

SpecCanon == InitCanon /\ [][NextCanon]_vars

(***************************************************************************)
(* SpecParse: the two parsers of the LLM's reply, extract_sentiment /      *)
(* extract_symbols (message_processor.py) and parse_llm_response           *)
(* (llm_processor.py).  A reply is a sequence of pieces of text: the       *)
(* labels, tickers and words are one piece each, digits, signs, "%", ",",  *)
(* " " and the line break "\n" are single characters.                      *)
(***************************************************************************)
\* most tickers on the Coins line
MaxTickers == 2

ReplyTickers == {"BTC", "ETH", "PEPE"}

\* the magnitudes of the sentiment that replies are built with
SentimentValues == {0, 5, 75, 100}

Digits == <<"0", "1", "2", "3", "4", "5", "6", "7", "8", "9">>

DigitPieces == {Digits[d] : d \in 1..10}

DigitValue(piece) == (CHOOSE d \in 1..10 : Digits[d] = piece) - 1

\* the pieces whose characters all match [\w/]
WordPieces == ReplyTickers \cup DigitPieces \cup {"N/A", "bullish"}

IsSpace(piece) == piece \in {" ", "\n"}

RECURSIVE Numeral(_)
\* the decimal digits of a natural number, as the LLM writes it
Numeral(n) ==
    IF n < 10 THEN <<Digits[n + 1]>>
    ELSE Append(Numeral(n \div 10), Digits[(n % 10) + 1])

RECURSIVE CommaSeparated(_)
\* "t1, t2, ..."
CommaSeparated(tickers) ==
    IF Len(tickers) = 1 THEN <<tickers[1]>>
    ELSE <<tickers[1], ",", " ">> \o CommaSeparated(Tail(tickers))

\* a plausible slip: the blanks after the commas are kept
KeepBlanks(str) == str

\* str.replace(" ", "")
WithoutBlanks(str) == SelectSeq(str, LAMBDA piece : piece # " ")

RECURSIVE Split(_, _)
\* str.split(sep)
Split(str, sep) ==
    IF ~InList(sep, str) THEN <<str>>
    ELSE LET i == CHOOSE k \in 1..Len(str) :
                      str[k] = sep /\ \A m \in 1..(k - 1) : str[m] # sep
         IN  <<SubSeq(str, 1, i - 1)>> \o Split(SubSeq(str, i + 1, Len(str)), sep)

RECURSIVE Strip(_)
\* str.strip()
Strip(str) ==
    IF str = <<>> THEN str
    ELSE IF IsSpace(Head(str)) THEN Strip(Tail(str))
    ELSE IF IsSpace(str[Len(str)]) THEN Strip(SubSeq(str, 1, Len(str) - 1))
    ELSE str

\* the last index of the longest run of pieces of `class` that starts at j
\* (j - 1 when there is none)
RunEnd(str, j, class) ==
    CHOOSE k \in (j - 1)..Len(str) :
        /\ \A m \in j..k : str[m] \in class
        /\ k < Len(str) => str[k + 1] \notin class

\* float(text) for a text of signs, digits and blanks: None for a ValueError
ParseFloat(text) ==
    LET str == Strip(text)
        signed == str # <<>> /\ str[1] \in {"-", "+"}
        digits == IF signed THEN Tail(str) ELSE str
        value[k \in 0..Len(digits)] ==
            IF k = 0 THEN 0 ELSE 10 * value[k - 1] + DigitValue(digits[k])
    IN  IF digits # <<>> /\ \A k \in 1..Len(digits) : digits[k] \in DigitPieces
        THEN [kind |-> "float",
              value |-> IF signed /\ str[1] = "-" THEN 0 - value[Len(digits)]
                        ELSE value[Len(digits)]]
        ELSE [kind |-> "None", value |-> 0]

\* extract_sentiment: re.search(r"Sentiment:\s*([-+]?\d+)%") at the first
\* place it matches, float() of the group, and 0 without a match
extract_sentiment(content) ==
    LET group(i) ==
            LET s == RunEnd(content, i + 1, {" ", "\n"}) + 1
                d == IF s <= Len(content) /\ content[s] \in {"-", "+"}
                     THEN s + 1 ELSE s
                e == RunEnd(content, d, DigitPieces)
            IN  IF e >= d /\ e < Len(content) /\ content[e + 1] = "%"
                THEN SubSeq(content, s, e) ELSE <<>>
        matches == {i \in 1..Len(content) :
                        content[i] = "Sentiment:" /\ group(i) # <<>>}
    IN  IF matches = {} THEN 0
        ELSE ParseFloat(group(CHOOSE i \in matches :
                                  \A m \in matches : i <= m)).value

\* extract_symbols: re.findall(r"Coins:\s*([\w, /]+)"), the first match with
\* its blanks removed and split at the commas, and [] without a match
extract_symbols(content) ==
    LET class == WordPieces \cup {",", " ", "/"}
        group(i) ==
            LET s == RunEnd(content, i + 1, {" ", "\n"}) + 1
                e == RunEnd(content, s, class)
            IN  IF e >= s THEN SubSeq(content, s, e)
                ELSE IF s - 1 > i /\ content[s - 1] = " " THEN <<" ">>
                ELSE <<>>
        matches == {i \in 1..Len(content) :
                        content[i] = "Coins:" /\ group(i) # <<>>}
    IN  IF matches = {} THEN <<>>
        ELSE Split(WithoutBlanks(group(CHOOSE i \in matches :
                                           \A m \in matches : i <= m)), ",")

\* the symbol loop's `if symbol == 'N/A' or not symbol: continue`
Tradable(symbols) ==
    SelectSeq(symbols, LAMBDA symbol : symbol # <<"N/A">> /\ symbol # <<>>)

RECURSIVE ParseLines(_, _)
\* the loop of parse_llm_response over the stripped lines: [coins,
\* sentiment]; the Explanation line ends the loop
ParseLines(lines, parsed) ==
    IF lines = <<>> THEN parsed
    ELSE LET line == Strip(Head(lines))
             rest(label) == Strip(SelectSeq(line, LAMBDA piece : piece # label))
         IN  IF line # <<>> /\ line[1] = "Coins:"
             THEN ParseLines(Tail(lines),
                      IF rest("Coins:") # <<"N/A">>
                      THEN [parsed EXCEPT !.coins =
                               LET coins == Split(rest("Coins:"), ",")
                               IN  [k \in 1..Len(coins) |-> Strip(coins[k])]]
                      ELSE parsed)
             ELSE IF line # <<>> /\ line[1] = "Sentiment:"
             THEN ParseLines(Tail(lines),
                      LET str == rest("Sentiment:")
                      IN  IF str # <<>> /\ str[Len(str)] = "%"
                          THEN [parsed EXCEPT !.sentiment =
                                   ParseFloat(SelectSeq(str, LAMBDA piece : piece # "%"))]
                          ELSE parsed)
             ELSE IF line # <<>> /\ line[1] = "Explanation:"
             THEN parsed
             ELSE ParseLines(Tail(lines), parsed)

\* parse_llm_response: (coins, sentiment), sentiment None when no line gave it
parse_llm_response(response_text) ==
    ParseLines(Split(Strip(response_text), "\n"),
               [coins |-> <<>>, sentiment |-> [kind |-> "None", value |-> 0]])

\* the replies: the canonical shape with the two lines in either order, with
\* or without the explanation, and two replies outside it (the "%" missing,
\* no Coins line)
LlmReply(tickers, sign, n, shape, coinsFirst, explained) ==
    LET coins == <<"Coins:", " ">> \o CommaSeparated(tickers)
        sentiment == <<"Sentiment:", " ">> \o sign \o Numeral(n)
                         \o (IF shape = "no_percent" THEN <<>> ELSE <<"%">>)
        lines == IF shape = "no_coins" THEN sentiment
                 ELSE IF coinsFirst THEN coins \o <<"\n">> \o sentiment
                 ELSE sentiment \o <<"\n">> \o coins
    IN  IF explained
        THEN lines \o <<"\n", "\n", "Explanation:", " ", "bullish">>
        ELSE lines

\* the live pipeline's parser
LenientParse ==
    /\ calc.pc = "parse"
    /\ calc.at = "reply"
    /\ calc' = [calc EXCEPT !.at = "lenient",
                            !.coins = Tradable(extract_symbols(calc.content)),
                            !.sentiment = [kind |-> "float",
                                           value |-> extract_sentiment(calc.content)]]
    /\ UNCHANGED <<storeVars, pipeVars>>

\* LLMProcessor's parser
ParseLlmResponse ==
    /\ calc.pc = "parse"
    /\ calc.at = "reply"
    /\ LET parsed == parse_llm_response(calc.content)
       IN  calc' = [calc EXCEPT !.at = "llm_processor",
                                !.coins = parsed.coins,
                                !.sentiment = parsed.sentiment]
    /\ UNCHANGED <<storeVars, pipeVars>>

InitParse ==
    /\ StoreInit /\ PipeIdle
    /\ \E tickers \in {<<"N/A">>} \cup UNION {[1..k -> ReplyTickers] : k \in 1..MaxTickers},
          sign \in {<<>>, <<"-">>, <<"+">>}, n \in SentimentValues,
          shape \in {"canonical", "no_percent", "no_coins"},
          coinsFirst \in BOOLEAN, explained \in BOOLEAN :
          calc = [pc |-> "parse", at |-> "reply", shape |-> shape,
                  tickers |-> tickers,
                  n |-> IF sign = <<"-">> THEN 0 - n ELSE n,
                  content |-> LlmReply(tickers, sign, n, shape, coinsFirst, explained),
                  coins |-> <<>>, sentiment |-> [kind |-> "None", value |-> 0]]

NextParse ==
    \/ LenientParse
    \/ ParseLlmResponse

SpecParse == InitParse /\ [][NextParse]_vars

(***************************************************************************)
(* SpecProvider: LLMService (llm_service.py), the choice of the request    *)
(* and response shape by LLM_OPTION.  A response body is given by the       *)
(* contents of its "choices" and of its "candidates" (a missing key is an  *)
(* empty list, a missing content or text is "").                          *)
(***************************************************************************)
\* the values LLM_OPTION can be configured with (config.py names BITDEER,
\* GEMINI and OPENAI), in either case
LlmOptions == {"BITDEER", "bitdeer", "GEMINI", "gemini", "OPENAI", "openai"}

\* str.upper() on those values
OptionUpper(option) ==
    CASE option \in {"BITDEER", "bitdeer"} -> "BITDEER"
      [] option \in {"GEMINI", "gemini"} -> "GEMINI"
      [] option \in {"OPENAI", "openai"} -> "OPENAI"

MessageTexts == {"text a", "text b"}

ContentLists == {<<>>, <<"">>, <<"reply">>, <<"reply", "other">>}

\* what the POST gives: a ClientError, a status other than 200, or a JSON body
LlmHttpReplies ==
    {[status |-> s, choices |-> <<>>, candidates |-> <<>>] : s \in {0, 500}}
        \cup {[status |-> 200, choices |-> ch, candidates |-> ca] :
                  ch \in ContentLists, ca \in ContentLists}

\* LLMService.__init__: the endpoint and the headers
LLMService(option) ==
    LET llm_option == OptionUpper(option)
    IN  IF llm_option = "BITDEER"
        THEN [pc |-> "provider", at |-> "constructed", configured |-> option,
              llm_option |-> llm_option, response |-> "none",
              url |-> "chat/completions", bearer |-> TRUE,
              payload |-> [shape |-> "none", text |-> "none"], read |-> "none", content |-> "None",
              error |-> "None"]
        ELSE [pc |-> "provider", at |-> "constructed", configured |-> option,
              llm_option |-> llm_option, response |-> "none",
              url |-> "generateContent", bearer |-> FALSE,
              payload |-> [shape |-> "none", text |-> "none"], read |-> "none", content |-> "None",
              error |-> "None"]

\* _extract_content_from_response: where the content is read and what is read
\* (None when the list is empty)
extract_content_from_response(llm_option, reply) ==
    IF llm_option = "BITDEER"
    THEN [read |-> "choices",
          content |-> IF reply.choices # <<>> THEN reply.choices[1] ELSE "None"]
    ELSE [read |-> "candidates",
          content |-> IF reply.candidates # <<>> THEN reply.candidates[1] ELSE "None"]

\* analyze_sentiment: the payload is prepared and posted; (content, None) for
\* a 200 with content, (None, error) otherwise
AnalyzeSentiment(message_text, reply) ==
    /\ calc.pc = "provider"
    /\ calc.at = "constructed"
    /\ LET payload == [shape |-> IF calc.llm_option = "BITDEER" THEN "messages"
                                  ELSE "contents",
                        text |-> message_text]
           got == extract_content_from_response(calc.llm_option, reply)
           called == [calc EXCEPT !.at = "returned", !.payload = payload,
                                  !.response = reply]
       IN  calc' =
             IF reply.status = 0
             THEN [called EXCEPT !.error = "Network error"]
             ELSE IF reply.status # 200
             THEN [called EXCEPT !.error = "status code"]
             ELSE IF got.content \in {"None", ""}
             THEN [called EXCEPT !.read = got.read, !.error = "No valid content"]
             ELSE [called EXCEPT !.read = got.read, !.content = got.content]
    /\ UNCHANGED <<storeVars, pipeVars>>

InitProvider ==
    /\ StoreInit /\ PipeIdle
    /\ \E option \in LlmOptions : calc = LLMService(option)

NextProvider ==
    \E message_text \in MessageTexts, reply \in LlmHttpReplies :
        AnalyzeSentiment(message_text, reply)

SpecProvider == InitProvider /\ [][NextProvider]_vars

(***************************************************************************)
(* SpecPrecision: the quantity-precision map built from the exchange's     *)
(* instrument list (BinanceClient._get_symbol_precision,                    *)
(* BinanceTrader.get_symbol_precision).  An instrument without the key      *)
(* "symbol" has symbol "None", one without "quantityPrecision" has          *)
(* precision -1.                                                           *)
(***************************************************************************)
\* most instruments in one exchange_info
MaxInstruments == 2

Instruments ==
    [symbol : {"None", "BTCUSDT", "SHIBUSDT"}, quantityPrecision : {-1, 0, 1, 3}]

\* futures_exchange_info(): the list under "symbols"
ExchangeInfos == UNION {[1..n -> Instruments] : n \in 0..MaxInstruments}

RECURSIVE PrecisionDict(_, _)
\* the loop over exchange_info["symbols"]: an entry is stored when symbol and
\* precision are both truthy (None and 0 are not); a later entry of the same
\* symbol replaces an earlier one
PrecisionDict(symbols, dict) ==
    IF symbols = <<>> THEN dict
    ELSE LET symbol == Head(symbols).symbol
             precision == Head(symbols).quantityPrecision
         IN  IF symbol # "None" /\ precision \notin {-1, 0}
             THEN PrecisionDict(Tail(symbols),
                      [s \in DOMAIN dict \cup {symbol} |->
                          IF s = symbol THEN precision ELSE dict[s]])
             ELSE PrecisionDict(Tail(symbols), dict)

\* get_symbol_precision: the map, or {} after a BinanceAPIException
GetSymbolPrecision(raised) ==
    /\ calc.pc = "precision"
    /\ calc.at = "call"
    /\ calc' = [calc EXCEPT !.at = IF raised THEN "raised" ELSE "fetched",
                            !.dict = IF raised THEN <<>>
                                     ELSE PrecisionDict(calc.exchange_info, <<>>)]
    /\ UNCHANGED <<storeVars, pipeVars>>

InitPrecision ==
    /\ StoreInit /\ PipeIdle
    /\ \E exchange_info \in ExchangeInfos :
          calc = [pc |-> "precision", at |-> "call",
                  exchange_info |-> exchange_info, dict |-> <<>>]

NextPrecision == \E raised \in BOOLEAN : GetSymbolPrecision(raised)

SpecPrecision == InitPrecision /\ [][NextPrecision]_vars

(***************************************************************************)
(* SpecSize: BinanceClient.calculate_order_size in binary64.  Rounding     *)
(* does not depend on the binary exponent, so the quantities are held      *)
(* divided by OrderScale: every order size from 1/16 up and every scaled   *)
(* quantity below 128 then lies in the range the digits hold exactly.      *)
(***************************************************************************)
\* the position of the bit that stands for 1
IntegerBit == UnitBits - 5

OrderScale == Pow2(UnitBits - IntegerBit)

\* capital, leverage and price of the calls (capital * leverage / price lies
\* between 0.07 and 1.26) and the quantity precisions the exchange lists
OrderCapitals == 7..21

OrderLeverages == {1, 3}

OrderPrices == {50, 100}

QuantityPrecisions == {0, 1, 2}

\* the integer n (0 <= n < 4 * OrderScale)
ScaledInt(n) ==
    [i \in 1..Limbs |->
        IF i = Limbs THEN n * Pow2(IntegerBit - LimbBits * (Limbs - 1)) ELSE 0]

\* the exact product with a small integer, carried from the least
\* significant digit up
ExactMultiply(a, m) ==
    LET R[i \in 0..Limbs] ==
            IF i = 0 THEN [carry |-> 0, digits |-> <<>>]
            ELSE LET prev == R[i - 1]
                     t == a[i] * m + prev.carry
                 IN  [carry |-> t \div LimbBase,
                      digits |-> Append(prev.digits, t % LimbBase)]
    IN  R[Limbs].digits

\* a * m in binary64, m a small integer
FloatMul(a, m) == RoundNearestEven(ExactMultiply(a, m), FALSE)

\* math.floor(a): the bits below IntegerBit are cleared
FloorInteger(a) ==
    [i \in 1..Limbs |->
        LET low == LimbBits * (i - 1)
        IN  IF low >= IntegerBit THEN a[i]
            ELSE IF low + LimbBits <= IntegerBit THEN 0
            ELSE a[i] - (a[i] % Pow2(IntegerBit - low))]

\* calculate_order_size(symbol, price, capital, leverage), with the
\* perps_tokens of the client and BINANCE_TESTNET_FLAG
calculate_order_size(perps_tokens, testnet, symbol, price, capital, leverage) ==
    LET order_size == FloatDiv(ScaledInt(capital * leverage), price)
    IN  IF testnet /\ symbol \in DOMAIN perps_tokens
        THEN LET precision == perps_tokens[symbol]
             IN  FloatDiv(FloorInteger(FloatMul(order_size, Pow10(precision))),
                          Pow10(precision))
        ELSE order_size

\* one call of calculate_order_size for the listed symbol
CalculateOrderSize ==
    /\ calc.pc = "order"
    /\ calc.at = "call"
    /\ calc' = [calc EXCEPT
           !.at = "returned",
           !.order_size = FloatDiv(ScaledInt(calc.capital * calc.leverage), calc.price),
           !.result = calculate_order_size(calc.perps_tokens, calc.testnet, "BTCUSDT",
                                           calc.price, calc.capital, calc.leverage)]
    /\ UNCHANGED <<storeVars, pipeVars>>

\* the client has loaded its trading pairs: on the sandbox venue perps_tokens
\* is the precision map of the exchange's list
InitSize ==
    /\ StoreInit /\ PipeIdle
    /\ \E capital \in OrderCapitals, leverage \in OrderLeverages, price \in OrderPrices,
          precision \in QuantityPrecisions, testnet \in BOOLEAN :
          calc = [pc |-> "order", at |-> "call", testnet |-> testnet,
                  quantityPrecision |-> precision,
                  perps_tokens |->
                      PrecisionDict(<<[symbol |-> "BTCUSDT",
                                       quantityPrecision |-> precision]>>, <<>>),
                  capital |-> capital, leverage |-> leverage, price |-> price,
                  order_size |-> ScaledInt(0), result |-> ScaledInt(0)]

NextSize == CalculateOrderSize

SpecSize == InitSize /\ [][NextSize]_vars

(***************************************************************************)
(* SpecRefresh: the two refreshes of the market-cap snapshot, by           *)
(* update_market_cap_loop and by is_top_market_cap, with the endpoint's    *)
(* answer of the last refresh kept for inspection.                         *)
(***************************************************************************)
\* a plausible slip: the loop saves whatever the fetch returned
SnapshotAlwaysSaved(fetched) == SavedSnapshot(fetched)

\* the loop's `if symbols: save_top_market_cap(symbols)`
SnapshotAfterRefresh(fetched) ==
    IF fetched # <<>> THEN SavedSnapshot(fetched) ELSE mcap_file

NoRefresh == [pc |-> "refresh", by |-> "none", response |-> [ok |-> FALSE, data |-> <<>>],
              before |-> NoSnapshot, at |-> 0, loops |-> 0, lookups |-> 0]

\* update_market_cap_loop: one iteration, then the sleep of
\* MARKETCAP_UPDATE_INTERVAL
RefreshByLoop(response) ==
    /\ calc.pc = "refresh"
    /\ mcap_wake # 0
    /\ mcap_wake <= clock
    /\ mcap_file' = SnapshotAfterRefresh(get_top_market_cap(response))
    /\ mcap_wake' = WakeAfterSleep
    /\ calc' = [calc EXCEPT !.by = "loop", !.response = response, !.before = mcap_file,
                            !.at = now, !.loops = calc.loops + 1]
    /\ UNCHANGED <<storeVars, cfgVars, received, message_queue, proc, tradeVars, clock>>

\* is_top_market_cap(symbol) finds no usable snapshot and asks the endpoint
RefreshByLookup(response) ==
    /\ calc.pc = "refresh"
    /\ calc.lookups < MaxLookups
    /\ ~CacheFresh
    /\ mcap_file' = SnapshotAfterLookup(get_top_market_cap(response))
    /\ calc' = [calc EXCEPT !.by = "lookup", !.response = response, !.before = mcap_file,
                            !.at = now, !.lookups = calc.lookups + 1]
    /\ UNCHANGED <<storeVars, cfgVars, received, message_queue, proc, tradeVars, mcap_wake,
                   clock>>

\* time passes
RefreshTick ==
    /\ calc.pc = "refresh"
    /\ clock < Len(Times)
    /\ clock' = clock + 1
    /\ UNCHANGED <<storeVars, calc, cfgVars, received, message_queue, proc, tradeVars,
                   mcap_file, mcap_wake>>

\* the loop task has just been created; an earlier run may have left a
\* snapshot
InitRefresh ==
    /\ StoreInit
    /\ TasksStart
    /\ variant = "none"
    /\ BINANCE_TESTNET_FLAG = FALSE
    /\ mcap_wake = 1
    /\ clock = 1
    /\ mcap_file \in {NoSnapshot}
          \cup {[st |-> "json", timestamp |-> t, symbols |-> l] :
                  t \in SavedAt, l \in {<<BTCUSDTChars>>, <<ETHUSDTChars>>}}
    /\ calc = NoRefresh

NextRefresh ==
    \/ \E response \in LookupResponses : RefreshByLoop(response)
    \/ \E response \in LookupResponses : RefreshByLookup(response)
    \/ RefreshTick

SpecRefresh == InitRefresh /\ [][NextRefresh]_vars

(***************************************************************************)
(* SpecOptimized: OptimizedTradingEngine.  Each execute_trade call is a    *)
(* coroutine that runs from one suspension point to the next without       *)
(* interruption.  position_lock is only ever held over statements without  *)
(* an await, so acquiring it never suspends; the awaits are the exchange   *)
(* calls, the precision lookup and the hold.                               *)
(***************************************************************************)
MaxCycles == 2
Cycles == 1..MaxCycles
EngineSymbols == {"BTCUSDT", "ETHUSDT"}
DailyLimits == 1..2
Days == 1..2
\* what an awaited exchange call does: 0 answers, 1 answers with nothing
\* usable, a negative number is the code of a BinanceAPIException
InsufficientFunds == 0 - 2019
InvalidSymbol == 0 - 1121
RateLimit == 0 - 1003
GenericError == 0 - 1000
ErrorCodes == {InsufficientFunds, InvalidSymbol, RateLimit, GenericError}
ExchangeAnswers == {0, 1} \cup ErrorCodes
max_retries == 3

\* a plausible slip: can_trade checks the daily limit only
can_trade_limit_only(symbol) ==
    IF (IF calc.today # calc.last_reset_date THEN 0 ELSE calc.daily_trades)
            >= calc.max_daily_trades
    THEN "Daily trade limit reached"
    ELSE "OK"

\* can_trade(symbol): the reason it returns, after the reset of the counter
\* on a new date
can_trade(symbol) ==
    IF (IF calc.today # calc.last_reset_date THEN 0 ELSE calc.daily_trades)
            >= calc.max_daily_trades
    THEN "Daily trade limit reached"
    ELSE IF calc.active_positions[symbol] # "none"
         THEN "Position already active"
         ELSE "OK"

\* the body of execute_trade raises nothing: every exception of the exchange
\* calls is turned into a failed result by `except Exception` in
\* _enter_position, _exit_position and execute_trade itself
ExecuteTradeRaises(code) == FALSE

\* async_retry_with_backoff: TRUE when the wrapper sleeps and calls again
async_retry_with_backoff(raised, attempt) == raised /\ attempt < max_retries

NoCycle == [pc |-> "idle", symbol |-> "", direction |-> "", attempt |-> 0,
            entries |-> 0, exits |-> 0, success |-> FALSE, error |-> "", code |-> 0]

\* execute_trade is called (or called again by the retry wrapper): can_trade,
\* then the marking of the position
ExecuteTrade(c, symbol, direction) ==
    /\ calc.pc = "engine"
    /\ calc.calls[c].pc \in {"idle", "retry"}
    /\ calc.calls[c].pc = "retry" =>
           (symbol = calc.calls[c].symbol /\ direction = calc.calls[c].direction)
    /\ LET reason == can_trade(symbol)
           counted == IF calc.today # calc.last_reset_date THEN 0 ELSE calc.daily_trades
           call == [calc.calls[c] EXCEPT !.symbol = symbol, !.direction = direction,
                                         !.attempt = @ + 1]
       IN  calc' = [calc EXCEPT
                !.daily_trades = counted,
                !.last_reset_date = calc.today,
                !.active_positions = IF reason = "OK"
                                     THEN [calc.active_positions EXCEPT ![symbol] = direction]
                                     ELSE calc.active_positions,
                !.calls = [calc.calls EXCEPT ![c] =
                              IF reason = "OK"
                              THEN [call EXCEPT !.pc = "ticker"]
                              ELSE [call EXCEPT !.pc = "done", !.error = reason]]]
    /\ UNCHANGED <<storeVars, pipeVars>>

\* the cycle leaves the try block with a failed result: the finally clause
\* pops the position, then the retry wrapper decides
CycleFailed(c, error, code) ==
    [calc EXCEPT
        !.active_positions = [calc.active_positions EXCEPT ![calc.calls[c].symbol] = "none"],
        !.calls = [calc.calls EXCEPT ![c] =
                      [@ EXCEPT !.pc = IF async_retry_with_backoff(ExecuteTradeRaises(code),
                                                                   @.attempt)
                                       THEN "retry" ELSE "done",
                                !.error = error, !.code = code]]]

CycleAt(c, pc) == [calc EXCEPT !.calls = [calc.calls EXCEPT ![c] = [@ EXCEPT !.pc = pc]]]

\* _enter_position: the price lookup
EnterTicker(c, answer) ==
    /\ calc.pc = "engine"
    /\ calc.calls[c].pc = "ticker"
    /\ answer \in {0} \cup ErrorCodes
    /\ calc' = IF answer = 0 THEN CycleAt(c, "precision")
               ELSE CycleFailed(c, "exception", answer)
    /\ UNCHANGED <<storeVars, pipeVars>>

\* _enter_position: the precision of the symbol (None when the cache has no
\* entry after its refresh) and the check of the order's notional value
EnterPrecision(c, known, too_large) ==
    /\ calc.pc = "engine"
    /\ calc.calls[c].pc = "precision"
    /\ calc' = IF ~known THEN CycleFailed(c, "Could not get symbol precision", 0)
               ELSE IF too_large THEN CycleFailed(c, "Position size exceeds maximum", 0)
               ELSE CycleAt(c, "leverage")
    /\ UNCHANGED <<storeVars, pipeVars>>

\* _enter_position: futures_change_leverage
EnterLeverage(c, answer) ==
    /\ calc.pc = "engine"
    /\ calc.calls[c].pc = "leverage"
    /\ answer \in {0} \cup ErrorCodes
    /\ calc' = IF answer = 0 THEN CycleAt(c, "order")
               ELSE CycleFailed(c, "exception", answer)
    /\ UNCHANGED <<storeVars, pipeVars>>

\* _enter_position: the market order
EnterOrder(c, answer) ==
    /\ calc.pc = "engine"
    /\ calc.calls[c].pc = "order"
    /\ answer \in ExchangeAnswers
    /\ calc' = IF answer = 0
               THEN [calc EXCEPT !.calls = [calc.calls EXCEPT ![c] =
                        [@ EXCEPT !.pc = "hold", !.entries = @ + 1]]]
               ELSE IF answer = 1 THEN CycleFailed(c, "Order placement failed", 0)
               ELSE CycleFailed(c, "exception", answer)
    /\ UNCHANGED <<storeVars, pipeVars>>

\* the hold time has passed
HoldElapsed(c) ==
    /\ calc.pc = "engine"
    /\ calc.calls[c].pc = "hold"
    /\ calc' = CycleAt(c, "exit_ticker")
    /\ UNCHANGED <<storeVars, pipeVars>>

\* _exit_position: the price lookup
ExitTicker(c, answer) ==
    /\ calc.pc = "engine"
    /\ calc.calls[c].pc = "exit_ticker"
    /\ answer \in {0} \cup ErrorCodes
    /\ calc' = IF answer = 0 THEN CycleAt(c, "exit_order")
               ELSE CycleFailed(c, "exception", answer)
    /\ UNCHANGED <<storeVars, pipeVars>>

\* _exit_position: the opposite order; on success the trade is counted and
\* the finally clause pops the position
ExitOrder(c, answer) ==
    /\ calc.pc = "engine"
    /\ calc.calls[c].pc = "exit_order"
    /\ answer \in ExchangeAnswers
    /\ calc' = IF answer = 0
               THEN [calc EXCEPT
                        !.daily_trades = @ + 1,
                        !.active_positions = [@ EXCEPT ![calc.calls[c].symbol] = "none"],
                        !.calls = [calc.calls EXCEPT ![c] =
                            [@ EXCEPT !.pc = "done", !.exits = @ + 1, !.success = TRUE]]]
               ELSE IF answer = 1 THEN CycleFailed(c, "Exit order failed", 0)
               ELSE CycleFailed(c, "exception", answer)
    /\ UNCHANGED <<storeVars, pipeVars>>

\* midnight passes
DayTurns ==
    /\ calc.pc = "engine"
    /\ calc.today + 1 \in Days
    /\ calc' = [calc EXCEPT !.today = @ + 1]
    /\ UNCHANGED <<storeVars, pipeVars>>

\* the engine as constructed
InitOptimized ==
    /\ StoreInit
    /\ PipeIdle
    /\ \E limit \in DailyLimits :
          calc = [pc |-> "engine", today |-> 1, last_reset_date |-> 1, daily_trades |-> 0,
                  max_daily_trades |-> limit,
                  active_positions |-> [s \in EngineSymbols |-> "none"],
                  calls |-> [c \in Cycles |-> NoCycle]]

NextOptimized ==
    \/ \E c \in Cycles, symbol \in EngineSymbols, direction \in Directions :
          ExecuteTrade(c, symbol, direction)
    \/ \E c \in Cycles, answer \in ExchangeAnswers : EnterTicker(c, answer)
    \/ \E c \in Cycles, known \in BOOLEAN, too_large \in BOOLEAN :
          EnterPrecision(c, known, too_large)
    \/ \E c \in Cycles, answer \in ExchangeAnswers : EnterLeverage(c, answer)
    \/ \E c \in Cycles, answer \in ExchangeAnswers : EnterOrder(c, answer)
    \/ \E c \in Cycles : HoldElapsed(c)
    \/ \E c \in Cycles, answer \in ExchangeAnswers : ExitTicker(c, answer)
    \/ \E c \in Cycles, answer \in ExchangeAnswers : ExitOrder(c, answer)
    \/ DayTurns

SpecOptimized == InitOptimized /\ [][NextOptimized]_vars

(***************************************************************************)
(* SpecCycle: one trade cycle followed on its own, with a count of every   *)
(* order, update call and reply: TradingEngine._execute_trade              *)
(* (trading_engine.py) and trade() (run_cryptopulse.py), from the moment   *)
(* the worker has put the symbol in processing_symbols.                    *)
(***************************************************************************)
CycleImpls == {"TradingEngine", "trade"}
TickerKinds == {"none", "invalid", "price"}

QueuedCycle == [pc |-> "cycle", at |-> "queued", impl |-> "TradingEngine", testnet |-> FALSE,
                direction |-> "LONG", failed |-> "none", h |-> 0,
                entry_orders |-> 0, exit_orders |-> 0, pnl_calls |-> 0, stats_calls |-> 0,
                error_replies |-> 0, result_replies |-> 0, processing |-> TRUE,
                worker |-> "running"]

\* an error reply is awaited: _send_error_message, or message.reply_text
\* inside `handlers` enclosing try blocks of trade()
ErrorReply(cycle, step, handlers) ==
    [cycle EXCEPT !.at = "error", !.failed = step, !.h = handlers,
                  !.error_replies = @ + 1]

\* a plausible slip: the position is closed before the exit price is looked at
ExitStepsOrderFirst(cycle, ticker, order_ok) ==
    IF ticker # "price"
    THEN ErrorReply([cycle EXCEPT !.exit_orders = 1], "exit_price", 2)
    ELSE IF cycle.testnet /\ ~order_ok THEN ErrorReply(cycle, "exit_order", 2)
    ELSE [cycle EXCEPT !.at = "pnl", !.exit_orders = 1, !.pnl_calls = @ + 1]

\* a plausible slip: the result of the entry order is not looked at
EntryStepsUnchecked(cycle, known, ticker, size_ok, order_ok) ==
    IF cycle.testnet /\ ~known /\ cycle.impl = "trade" THEN ErrorReply(cycle, "precision", 1)
    ELSE IF ticker # "price" THEN ErrorReply(cycle, "price", 1)
    ELSE IF ~size_ok THEN ErrorReply(cycle, "size", 1)
    ELSE [cycle EXCEPT !.at = "hold", !.entry_orders = IF order_ok THEN 1 ELSE 0]

\* the cycle from its start to its first suspension: the precision (trade()
\* on the sandbox venue), the price, the order size, the entry order
EntrySteps(cycle, known, ticker, size_ok, order_ok) ==
    IF cycle.impl = "TradingEngine"
    THEN IF ticker = "none" THEN ErrorReply(cycle, "price", 1)
         ELSE IF ticker = "invalid" THEN ErrorReply(cycle, "price", 1)
         ELSE IF ~size_ok THEN ErrorReply(cycle, "size", 1)
         ELSE IF ~order_ok /\ cycle.testnet THEN ErrorReply(cycle, "entry_order", 1)
         ELSE [cycle EXCEPT !.at = "hold", !.entry_orders = IF order_ok THEN 1 ELSE 0]
    ELSE IF cycle.testnet /\ ~known THEN ErrorReply(cycle, "precision", 1)
         ELSE IF ticker # "price" THEN ErrorReply(cycle, "price", 1)
         ELSE IF ~size_ok THEN ErrorReply(cycle, "size", 1)
         ELSE IF cycle.testnet /\ ~order_ok THEN ErrorReply(cycle, "entry_order", 2)
         ELSE [cycle EXCEPT !.at = "hold", !.entry_orders = IF cycle.testnet THEN 1 ELSE 0]

\* the cycle from the end of the hold to its next suspension: the exit
\* price, the exit order, the call of update_pnl_data
ExitSteps(cycle, ticker, order_ok) ==
    IF ticker # "price" THEN ErrorReply(cycle, "exit_price", 2)
    ELSE IF cycle.impl = "TradingEngine"
    THEN IF ~order_ok /\ cycle.testnet THEN ErrorReply(cycle, "exit_order", 2)
         ELSE [cycle EXCEPT !.at = "pnl", !.exit_orders = IF order_ok THEN 1 ELSE 0,
                            !.pnl_calls = @ + 1]
    ELSE IF cycle.testnet /\ ~order_ok THEN ErrorReply(cycle, "exit_order", 2)
         ELSE [cycle EXCEPT !.at = "pnl", !.exit_orders = IF cycle.testnet THEN 1 ELSE 0,
                            !.pnl_calls = @ + 1]

\* the worker calls the trade function for the item it dequeued
ExecuteTradeStart(known, ticker, size_ok, order_ok) ==
    /\ calc.pc = "cycle"
    /\ calc.at = "queued"
    /\ calc' = EntrySteps(calc, known, ticker, size_ok, order_ok)
    /\ UNCHANGED <<storeVars, pipeVars>>

\* `await asyncio.sleep(HODL_TIME)` returns
ExecuteTradeHoldOver(ticker, order_ok) ==
    /\ calc.pc = "cycle"
    /\ calc.at = "hold"
    /\ calc' = ExitSteps(calc, ticker, order_ok)
    /\ UNCHANGED <<storeVars, pipeVars>>

\* update_pnl_data returns: update_stats_data is called
ExecuteTradePnlSaved ==
    /\ calc.pc = "cycle"
    /\ calc.at = "pnl"
    /\ calc' = [calc EXCEPT !.at = "stats", !.stats_calls = @ + 1]
    /\ UNCHANGED <<storeVars, pipeVars>>

\* update_stats_data returns: the trade summary is sent
ExecuteTradeStatsSaved ==
    /\ calc.pc = "cycle"
    /\ calc.at = "stats"
    /\ calc' = [calc EXCEPT !.at = "result", !.h = 2, !.result_replies = @ + 1]
    /\ UNCHANGED <<storeVars, pipeVars>>

\* a reply returns or raises.  TradingEngine's helpers log a failed send;
\* in trade() the enclosing handler sends a reply of its own, and a raise in
\* the outermost handler leaves trade() and ends the worker.  The finally
\* clause removes the symbol from processing_symbols.
ExecuteTradeReplied(ok) ==
    /\ calc.pc = "cycle"
    /\ calc.at \in {"error", "result"}
    /\ calc' = IF ok \/ calc.impl = "TradingEngine"
               THEN [calc EXCEPT !.at = "ended", !.processing = FALSE]
               ELSE IF calc.h > 0
               THEN [calc EXCEPT !.at = "error", !.h = @ - 1, !.error_replies = @ + 1]
               ELSE [calc EXCEPT !.at = "ended", !.processing = FALSE, !.worker = "dead"]
    /\ UNCHANGED <<storeVars, pipeVars>>

InitCycle ==
    /\ StoreInit
    /\ PipeIdle
    /\ \E impl \in CycleImpls, testnet \in BOOLEAN, direction \in Directions :
          calc = [QueuedCycle EXCEPT !.impl = impl, !.testnet = testnet,
                                     !.direction = direction]

NextCycle ==
    \/ \E known \in BOOLEAN, ticker \in TickerKinds, size_ok \in BOOLEAN, order_ok \in BOOLEAN :
          ExecuteTradeStart(known, ticker, size_ok, order_ok)
    \/ \E ticker \in TickerKinds, order_ok \in BOOLEAN : ExecuteTradeHoldOver(ticker, order_ok)
    \/ ExecuteTradePnlSaved
    \/ ExecuteTradeStatsSaved
    \/ \E ok \in BOOLEAN : ExecuteTradeReplied(ok)

SpecCycle == InitCycle /\ [][NextCycle]_vars

(***************************************************************************)
(* SpecListenerStart: TelegramListener.start (telegram_listener.py) with   *)
(* TelegramBot.setup (telegram_bot.py), one action per awaited call.       *)
(***************************************************************************)
MembershipAnswers == {"member", "administrator", "left", "raised"}

\* the listener as constructed; the stored PnL names `chats` chats
ListenerCreated(chats) ==
    [pc |-> "listener", at |-> "start", workers |-> 0, consumer |-> FALSE,
     commands |-> FALSE, names |-> [i \in 1..chats |-> "none"], next |-> 1,
     membership |-> "unknown", session |-> FALSE]

\* start_workers creates the worker tasks; setup begins with _set_commands
ListenerStartWorkers ==
    /\ calc.pc = "listener"
    /\ calc.at = "start"
    /\ calc' = [calc EXCEPT !.at = "commands", !.workers = NumWorkers]
    /\ UNCHANGED <<storeVars, pipeVars>>

\* _set_commands: set_my_commands returns, or raises and the error is printed
BotSetCommands(ok) ==
    /\ calc.pc = "listener"
    /\ calc.at = "commands"
    /\ calc' = [calc EXCEPT !.commands = ok,
                            !.at = IF Len(calc.names) = 0 THEN "membership" ELSE "names"]
    /\ UNCHANGED <<storeVars, pipeVars>>

\* _get_chat_id_name_dict, one chat: get_chat returns, or raises and
\* "Chat <id>" is stored
BotResolveChat(ok) ==
    /\ calc.pc = "listener"
    /\ calc.at = "names"
    /\ calc' = [calc EXCEPT !.names[calc.next] = IF ok THEN "title" ELSE "id",
                            !.next = calc.next + 1,
                            !.at = IF calc.next = Len(calc.names) THEN "membership"
                                   ELSE "names"]
    /\ UNCHANGED <<storeVars, pipeVars>>

\* _check_bot_membership returns True or False (False also when the lookup
\* raised); setup drops the answer and returns, start creates the message
\* processor task and awaits app.start()
BotCheckMembership(answer) ==
    /\ calc.pc = "listener"
    /\ calc.at = "membership"
    /\ calc' = [calc EXCEPT !.membership = answer, !.consumer = TRUE, !.at = "session"]
    /\ UNCHANGED <<storeVars, pipeVars>>

\* app.start() returns, or raises and the error is printed
ListenerSessionStart(ok) ==
    /\ calc.pc = "listener"
    /\ calc.at = "session"
    /\ calc' = [calc EXCEPT !.session = ok, !.at = "returned"]
    /\ UNCHANGED <<storeVars, pipeVars>>

InitListenerStart ==
    /\ StoreInit
    /\ PipeIdle
    /\ \E chats \in 0..MaxChats : calc = ListenerCreated(chats)

NextListenerStart ==
    \/ ListenerStartWorkers
    \/ \E ok \in BOOLEAN : BotSetCommands(ok)
    \/ \E ok \in BOOLEAN : BotResolveChat(ok)
    \/ \E answer \in MembershipAnswers : BotCheckMembership(answer)
    \/ \E ok \in BOOLEAN : ListenerSessionStart(ok)

SpecListenerStart == InitListenerStart /\ [][NextListenerStart]_vars

(***************************************************************************)
(* SpecAck: an asyncio.Queue and the tasks consuming it, with a count of   *)
(* the get() calls that returned and of the task_done() calls made:        *)
(* run_processor (message_processor.py), message_processor_worker          *)
(* (modules/message_processor.py) on the message queue, and                *)
(* TradingEngine._worker (trading_engine.py) on the trade queue.           *)
(***************************************************************************)
QueueKinds == {"message_queue", "symbol_queue"}

\* the tasks consuming a queue: one processor, or the trade workers
Consumers(kind) == IF kind = "message_queue" THEN 1..1 ELSE Workers

\* Queue.task_done(): ValueError when no unfinished task is left
task_done(unfinished) == IF unfinished <= 0 THEN 0 ELSE unfinished - 1

\* a queue as constructed, its consumers waiting in get()
QueueCreated(kind) ==
    [pc |-> "ack", kind |-> kind, queue |-> 0, puts |-> 0, gets |-> 0, dones |-> 0,
     unfinished |-> 0,
     consumer |-> [c \in Consumers(kind) |-> [at |-> "get", raised |-> "none"]]]

\* put(item)
QueuePut ==
    /\ calc.pc = "ack"
    /\ calc.puts < MaxTrades
    /\ calc' = [calc EXCEPT !.puts = @ + 1, !.queue = @ + 1, !.unfinished = @ + 1]
    /\ UNCHANGED <<storeVars, pipeVars>>

\* `await queue.get()` returns an item
ConsumerGet(c) ==
    /\ calc.pc = "ack"
    /\ c \in Consumers(calc.kind)
    /\ calc.consumer[c].at = "get"
    /\ calc.queue > 0
    /\ calc' = [calc EXCEPT !.queue = @ - 1, !.gets = @ + 1, !.consumer[c].at = "work"]
    /\ UNCHANGED <<storeVars, pipeVars>>

\* the processing of the item returns, or raises an Exception that the
\* handler prints; the finally clause calls task_done and the loop goes on
ConsumerFinished(c, ok) ==
    /\ calc.pc = "ack"
    /\ c \in Consumers(calc.kind)
    /\ calc.consumer[c].at = "work"
    /\ calc' = [calc EXCEPT !.dones = @ + 1, !.unfinished = task_done(@),
                            !.consumer[c] = [at |-> "get",
                                             raised |-> IF ok THEN "none" ELSE "Exception"]]
    /\ UNCHANGED <<storeVars, pipeVars>>

\* task.cancel() reaches the consumer at its await: CancelledError is not an
\* Exception, so only the finally clause runs, calling task_done; with no
\* unfinished task task_done raises ValueError, which ends the task instead
ConsumerCancelled(c) ==
    /\ calc.pc = "ack"
    /\ c \in Consumers(calc.kind)
    /\ calc.consumer[c].at \in {"get", "work"}
    /\ calc' = [calc EXCEPT !.dones = @ + 1, !.unfinished = task_done(@),
                            !.consumer[c] = [at |-> "ended",
                                             raised |-> IF calc.unfinished <= 0
                                                        THEN "ValueError"
                                                        ELSE "CancelledError"]]
    /\ UNCHANGED <<storeVars, pipeVars>>

InitAck ==
    /\ StoreInit
    /\ PipeIdle
    /\ \E kind \in QueueKinds : calc = QueueCreated(kind)

NextAck ==
    \/ QueuePut
    \/ \E c \in Workers : ConsumerGet(c)
    \/ \E c \in Workers, ok \in BOOLEAN : ConsumerFinished(c, ok)
    \/ \E c \in Workers : ConsumerCancelled(c)

SpecAck == InitAck /\ [][NextAck]_vars

(***************************************************************************)
(* SpecRead: SpecStore with the reads of /pnl and /stats, get_pnl_data and *)
(* get_stats_data, which load the file without taking the lock.            *)
(***************************************************************************)
\* the content of the last completed save of a file
Committed(file) == IF file.st = "truncated" THEN load_data(overwritten) ELSE load_data(file)

\* get_pnl_data (op "pnl") or get_stats_data (op "stats") at any moment
ReadData(op) ==
    /\ calc.pc \in {"none", "read"}
    /\ LET file == IF op = "pnl" THEN pnl_file ELSE stats_file
       IN  calc' = [pc |-> "read", op |-> op, seen |-> load_data(file),
                    committed |-> Committed(file),
                    saving |-> {upd[t].data : t \in {x \in Workers : upd[x].pc = "write"
                                                                     /\ upd[x].op = op}}]
    /\ UNCHANGED <<storeVars, pipeVars>>

InitRead == InitStore

NextRead ==
    \/ NextStore
    \/ \E op \in {"pnl", "stats"} : ReadData(op)

SpecRead == InitRead /\ [][NextRead]_vars

(***************************************************************************)
(* Properties of the persistence layer (checked under SpecStore).          *)
(***************************************************************************)
\* v is x rounded to 2 decimals: a whole number of cents nearest to x
IsRounded2(v, x) == v % 10 = 0 /\ 2 * Abs(v - x) <= 10

RECURSIVE FoldPnl(_)
\* the PnL store after the logged updates are applied one after the other
FoldPnl(log) ==
    IF log = <<>> THEN EmptyMap
    ELSE LET n == Len(log)
         IN  PnlUpdated(FoldPnl(SubSeq(log, 1, n - 1)), log[n][1], log[n][2])

RECURSIVE MaxNonNeg(_)
\* the largest non-negative value of a sequence, 0 if there is none
MaxNonNeg(log) ==
    IF log = <<>> THEN 0 ELSE Max(MaxNonNeg(Tail(log)), Max(Head(log), 0))

RECURSIVE MinNeg(_)
\* the most negative value of a sequence, 0 if there is none
MinNeg(log) ==
    IF log = <<>> THEN 0 ELSE Min(MinNeg(Tail(log)), Min(Head(log), 0))

\* C8: the save that completes update_pnl_data({chat_id: delta}) stores, for
\* chat_id, the value it replaces (0 if absent) plus delta rounded to 2
\* decimals, creates the entry if needed, and leaves every other chat id's
\* value as it was.
C8_UpdatePnlSumsRoundsAndFrames ==
    [][\A t \in Workers :
        (upd[t].pc = "write" /\ upd[t].op = "pnl" /\ upd'[t].pc = "idle") =>
            LET before == load_data(overwritten)
                k == upd[t].key
            IN  /\ pnl_file'.st = "json"
                /\ DOMAIN pnl_file'.data = DOMAIN before \cup {k}
                /\ IsRounded2(pnl_file'.data[k], Get(before, k, 0) + upd[t].val)
                /\ \A o \in DOMAIN before \ {k} : pnl_file'.data[o] = before[o]
      ]_vars

\* C8 witness: an entry was created for c2, and c1 was updated twice with
\* sub-cent deltas (10.556 then -2.204 gives 8.36) while c2 kept its value.
C8_Witness ==
    /\ pnlLog = << <<"c1", 10556>>, <<"c2", 4>>, <<"c1", -2204>> >>
    /\ pnl_file.st = "json"
    /\ pnl_file.data = [k \in ChatKeys |-> IF k = "c1" THEN 8360 ELSE 0]

\* C9: concurrent update_pnl_data / update_stats_data calls behave as if run
\* one after the other in the order of their saves: whenever a store file
\* is not in the middle of a save, the PnL store is the sequential fold of
\* every completed delta and Total No. of Trades is the number of completed
\* update_stats_data calls.
C9_UpdatesSerialize ==
    /\ pnl_file.st # "truncated" => load_data(pnl_file) = FoldPnl(pnlLog)
    /\ stats_file.st # "truncated" =>
           Get(load_data(stats_file), "Total No. of Trades", 0) = Len(statsLog)

\* C9 witness: calls overlapped (one found the lock held), and afterwards two
\* deltas for the same chat and one stats update are all in the stores.
C9_Witness ==
    /\ contended
    /\ lock = 0
    /\ \A t \in Workers : upd[t].pc = "idle"
    /\ Len(pnlLog) = 2 /\ pnlLog[1][1] = pnlLog[2][1]
    /\ Len(statsLog) = 1
    /\ Get(load_data(stats_file), "Total No. of Trades", 0) = 1

\* C10 (as amended): after any sequence of update_stats_data calls from an
\* empty store, Total No. of Trades is the number of calls, Maximum Gain is
\* the largest non-negative PnL recorded rounded to 2 decimals (0 if none)
\* and Maximum Drawdown is the most negative PnL recorded rounded to 2
\* decimals (0 if none), a missing key being read as 0.
C10_StatsExtremaRounded ==
    stats_file.st # "truncated" =>
        LET d == load_data(stats_file)
        IN  /\ Get(d, "Total No. of Trades", 0) = Len(statsLog)
            /\ IsRounded2(Get(d, "Maximum Gain", 0), MaxNonNeg(statsLog))
            /\ IsRounded2(Get(d, "Maximum Drawdown", 0), MinNeg(statsLog))

\* C10 witness: three calls, a gain, a smaller gain and a loss, are recorded.
C10_Witness ==
    /\ statsLog = <<10556, 4, -2204>>
    /\ stats_file.st = "json"
    /\ stats_file.data["Maximum Gain"] = 10560
    /\ stats_file.data["Maximum Drawdown"] = -2200
    /\ stats_file.data["Total No. of Trades"] = 3

\* C10 as stated: Maximum Gain and Maximum Drawdown equal the largest
\* non-negative and the most negative PnL recorded, exactly.
C10_StatsExtremaExact ==
    stats_file.st # "truncated" =>
        LET d == load_data(stats_file)
        IN  /\ Get(d, "Total No. of Trades", 0) = Len(statsLog)
            /\ Get(d, "Maximum Gain", 0) = MaxNonNeg(statsLog)
            /\ Get(d, "Maximum Drawdown", 0) = MinNeg(statsLog)

RECURSIVE SumSeq(_)
\* the sum of a sequence of numbers
SumSeq(log) == IF log = <<>> THEN 0 ELSE Head(log) + SumSeq(Tail(log))

\* C11 as stated: after any sequence of update_stats_data calls the stored
\* Average Gain is the arithmetic mean of all PnL values recorded so far,
\* rounded to 2 decimals (a whole number of cents nearest to sum / count).
C11_AverageIsRoundedMean ==
    (stats_file.st = "json" /\ statsLog # <<>>) =>
        LET avg == Get(load_data(stats_file), "Average Gain", 0)
            n == Len(statsLog)
        IN  /\ avg % 10 = 0
            /\ 2 * Abs(avg * n - SumSeq(statsLog)) <= 10 * n

\* C15: a trade cycle that fails, also while its error reply is being sent,
\* never ends the worker: a worker that leaves a cycle is waiting on the
\* queue again (or was cancelled by the shutdown).
C15_WorkerSurvivesFailingCycle ==
    [][\A w \in Workers :
          (InCycle(w) /\ wk'[w].pc \notin {"trade", "hold", "upd", "reply"})
              => wk'[w].pc \in {"get", "cancelled"}]_vars

C22_TasksOnlyAfterStartup ==
    (calc.pc = "startup" /\ calc.started # {}) =>
        /\ calc.session
        /\ calc.member
        /\ \A i \in 1..Len(calc.names) : calc.names[i] = "title"

(***************************************************************************)
(* Properties of the worker pool's shutdown (checked under SpecStopLive).  *)
(***************************************************************************)
\* the trade items queued before the stop signals that have been executed
ExecutedBeforeStop(w) ==
    {calc.executed[w][k] : k \in 1..Len(calc.executed[w])} \cap (1..calc.before)

\* C23: stop_workers queues one stop signal per worker; a worker exits only
\* by taking a stop signal and takes one at most; once stop signals are taken
\* every trade item queued before them has been taken, and a worker that has
\* exited has executed each of those it took; stop_workers returns only when
\* every worker has exited, and it does return.
C23_StopDrainsAndReturns ==
    /\ [](calc.pc = "stop" =>
            /\ \A w \in 1..NumWorkers :
                  /\ calc.signals[w] = (IF calc.wk[w].at = "stopped" THEN 1 ELSE 0)
                  /\ calc.wk[w].at = "stopped" =>
                        \A k \in 1..Len(calc.queue) : calc.queue[k] \notin 1..calc.before
            /\ (\A w \in 1..NumWorkers : calc.wk[w].at = "stopped") =>
                  UNION {ExecutedBeforeStop(w) : w \in 1..NumWorkers} = 1..calc.before
            /\ calc.stop = "returned" =>
                  \A w \in 1..NumWorkers : calc.wk[w].at = "stopped")
    /\ (calc.pc = "stop" /\ calc.stop = "gather") ~> (calc.stop = "returned")

\* C23 witness: stop_workers has returned after MaxTrades trade items were
\* queued before it; every worker executed some of them and one cycle raised.
C23_Witness ==
    /\ calc.pc = "stop"
    /\ calc.stop = "returned"
    /\ calc.before = MaxTrades
    /\ \A w \in 1..NumWorkers : calc.executed[w] # <<>>
    /\ calc.failed # {}

(***************************************************************************)
(* Properties of the ticker canonicalisation (checked under SpecCanon).    *)
(***************************************************************************)
\* C24: the canonical symbol of a ticker is upper-case and ends in USDT, a
\* ticker that already ends in USDT is left unchanged, and canonicalising
\* twice gives the same as canonicalising once.
C24_CanonUpperEndsUsdtIdempotent ==
    (calc.pc = "canon" /\ calc.at = "symbol") =>
        /\ \A k \in 1..Len(calc.symbol) : calc.symbol[k] \notin LowerPieces
        /\ EndsWith(calc.symbol, <<"USDT">>)
        /\ EndsWith(calc.ticker, <<"USDT">>) => calc.symbol = calc.ticker
        /\ calc.again = calc.symbol

(***************************************************************************)
(* Properties of the reply parsers (checked under SpecParse).              *)
(***************************************************************************)
\* C25: for a reply in the canonical shape either parser gives the tickers of
\* the Coins line in order and the number of the Sentiment line; for
\* "Coins: N/A" no tradable ticker results.
C25_CanonicalReplyParsed ==
    (calc.pc = "parse" /\ calc.at # "reply" /\ calc.shape = "canonical") =>
        /\ calc.sentiment = [kind |-> "float", value |-> calc.n]
        /\ calc.coins = IF calc.tickers = <<"N/A">> THEN <<>>
                        ELSE [k \in 1..Len(calc.tickers) |-> <<calc.tickers[k]>>]

\* C25 witness: the lenient parser has parsed a reply with the Sentiment line
\* first, a negative sentiment and two tickers.
C25_Witness ==
    /\ calc.pc = "parse"
    /\ calc.at = "lenient"
    /\ calc.shape = "canonical"
    /\ calc.content[1] = "Sentiment:"
    /\ calc.sentiment.value = -75
    /\ calc.coins = <<<<"ETH">>, <<"BTC">>>>

(***************************************************************************)
(* Properties of the LLM client (checked under SpecProvider).              *)
(***************************************************************************)
\* C26: BITDEER and OPENAI use the chat-completions shape (bearer header,
\* messages payload, content read from choices), GEMINI the generate-content
\* shape (contents payload, content read from candidates).
C26_ShapeByProvider ==
    (calc.pc = "provider" /\ calc.at = "returned") =>
        /\ calc.llm_option \in {"BITDEER", "OPENAI"} =>
              /\ calc.url = "chat/completions"
              /\ calc.bearer
              /\ calc.payload.shape = "messages"
              /\ calc.read \in {"none", "choices"}
        /\ calc.llm_option = "GEMINI" =>
              /\ calc.url = "generateContent"
              /\ ~calc.bearer
              /\ calc.payload.shape = "contents"
              /\ calc.read \in {"none", "candidates"}

(***************************************************************************)
(* Properties of TradingEngine.queue_trade (checked under Spec, in the     *)
(* wiring of telegram_listener.py).                                        *)
(***************************************************************************)
\* C27: queue_trade refuses a symbol of the top market-cap list, leaving the
\* pending set and the queue as they were: with a fresh snapshot on disk, no
\* symbol of the snapshot becomes pending or is queued.
C27_TopSymbolNotQueued ==
    [][(variant = "engine" /\ CacheFresh) =>
          /\ \A symbol \in pending_symbols' \ pending_symbols :
                ~InList(symbol, mcap_file.symbols)
          /\ Len(symbol_queue') > Len(symbol_queue) =>
                \A k \in (Len(symbol_queue) + 1)..Len(symbol_queue') :
                    ~InList(symbol_queue'[k].symbol, mcap_file.symbols)]_vars

(***************************************************************************)
(* Properties of BinanceClient.retry_api_call's waits (checked under       *)
(* SpecRetry).                                                             *)
(***************************************************************************)
\* C28: after the failed attempt k (counted from 0) BinanceClient waits
\* RETRY_AFTER * 2^k before the next attempt, whatever the error was, and
\* does not wait after the last attempt.
C28_WaitDoublesForEveryError ==
    [][(calc.pc = "retry" /\ calc.impl = "BinanceClient"
            /\ calc'.attempt = calc.attempt + 1) =>
          calc'.slept - calc.slept =
              IF calc.attempt < MAX_RETRIES - 1
              THEN RETRY_AFTER * Pow2(calc.attempt) ELSE 0]_vars

(***************************************************************************)
(* Properties of the precision map (checked under SpecPrecision).          *)
(***************************************************************************)
\* C29: the map built from a fetched instrument list has every instrument
\* that carries a symbol and a quantity precision, precision 0 included.
C29_EveryInstrumentMapped ==
    (calc.pc = "precision" /\ calc.at = "fetched") =>
        \A k \in 1..Len(calc.exchange_info) :
            LET instrument == calc.exchange_info[k]
            IN  (instrument.symbol # "None" /\ instrument.quantityPrecision >= 0) =>
                    instrument.symbol \in DOMAIN calc.dict

(***************************************************************************)
(* Properties of calculate_order_size (checked under SpecSize).            *)
(***************************************************************************)
\* C30: on the sandbox venue, for a symbol of quantity precision p, the
\* order size returned is floor((capital * leverage / price) * 10^p) / 10^p
\* and does not exceed the unrounded quantity.
C30_FlooredToPrecision ==
    (calc.pc = "order" /\ calc.at = "returned" /\ calc.testnet) =>
        /\ calc.result =
              FloatDiv(ScaledInt((calc.capital * calc.leverage
                                      * Pow10(calc.quantityPrecision)) \div calc.price),
                       Pow10(calc.quantityPrecision))
        /\ FloatGE(calc.order_size, calc.result)

(***************************************************************************)
(* Properties of the market-cap refreshes (checked under SpecRefresh).     *)
(***************************************************************************)
\* C31: after a refresh, by the loop or by a lookup, whose fetch failed or
\* gave no symbols, the snapshot on disk is the one from before; and after
\* any iteration of the loop the loop is asleep until the interval is over:
\* it wakes at the first instant not earlier than MARKETCAP_UPDATE_INTERVAL
\* after the iteration.
C31_FailedRefreshKeepsSnapshot ==
    (calc.pc = "refresh" /\ calc.by # "none") =>
        /\ get_top_market_cap(calc.response) = <<>> => mcap_file = calc.before
        /\ \A i \in 1..Len(Times) :
              (Times[i] >= calc.at + MARKETCAP_UPDATE_INTERVAL
                   /\ \A j \in 1..(i - 1) : Times[j] < calc.at + MARKETCAP_UPDATE_INTERVAL)
                  => (calc.by = "loop" => mcap_wake = i)

\* C31 witness: the loop's first fetch failed with a snapshot of an earlier
\* run on disk (saved at instant 1), the snapshot was still there when the
\* loop refreshed again after the interval, this time storing the list.
C31_Witness ==
    /\ calc.pc = "refresh"
    /\ calc.by = "loop"
    /\ calc.loops = 2
    /\ calc.before = [st |-> "json", timestamp |-> 1, symbols |-> <<ETHUSDTChars>>]
    /\ calc.at = 3601
    /\ mcap_file = [st |-> "json", timestamp |-> 3601, symbols |-> <<BTCUSDTChars>>]

(***************************************************************************)
(* Properties of OptimizedTradingEngine (checked under SpecOptimized).     *)
(***************************************************************************)
\* the positions of a cycle between the marking of its position and the
\* finally clause
Marked == {"ticker", "precision", "leverage", "order", "hold", "exit_ticker", "exit_order"}

\* C32: the number of trades counted for a day, daily_trades, never exceeds
\* max_daily_trades, also with several execute_trade calls in flight.
C32_DailyTradesWithinLimit ==
    calc.pc = "engine" => calc.daily_trades <= calc.max_daily_trades

\* C33: a call whose exchange error was a rate limit (-1003) or a generic
\* trading error ends only after max_retries attempts, a call whose error was
\* insufficient funds (-2019) or an invalid symbol (-1121) ends after its
\* first attempt, and no call makes more than max_retries attempts.
C33_RetriedByErrorKind ==
    calc.pc = "engine" =>
        \A c \in Cycles :
            /\ calc.calls[c].attempt <= max_retries
            /\ (calc.calls[c].pc = "done" /\ ~calc.calls[c].success) =>
                  /\ calc.calls[c].code \in {RateLimit, GenericError}
                        => calc.calls[c].attempt = max_retries
                  /\ calc.calls[c].code \in {InsufficientFunds, InvalidSymbol}
                        => calc.calls[c].attempt = 1

\* C34: at most one cycle per symbol is between marking and clean-up, a symbol
\* is in active_positions exactly while such a cycle exists, and a call
\* refused because the position is active has placed no order.
C34_OneCyclePerSymbol ==
    calc.pc = "engine" =>
        /\ \A c, d \in Cycles :
              (c # d /\ calc.calls[c].pc \in Marked /\ calc.calls[d].pc \in Marked)
                  => calc.calls[c].symbol # calc.calls[d].symbol
        /\ \A s \in EngineSymbols :
              calc.active_positions[s] # "none" <=>
                  \E c \in Cycles : calc.calls[c].pc \in Marked /\ calc.calls[c].symbol = s
        /\ \A c \in Cycles :
              (calc.calls[c].pc = "done" /\ calc.calls[c].error = "Position already active")
                  => (~calc.calls[c].success /\ calc.calls[c].entries = 0
                          /\ calc.calls[c].exits = 0)

\* C34 witness: a second call for BTCUSDT was refused while the first cycle
\* holds its position, whose entry is still in active_positions.
C34_Witness ==
    /\ calc.pc = "engine"
    /\ calc.calls[1].pc = "hold"
    /\ calc.calls[1].symbol = "BTCUSDT"
    /\ calc.calls[1].direction = "LONG"
    /\ calc.calls[2].pc = "done"
    /\ calc.calls[2].symbol = "BTCUSDT"
    /\ calc.calls[2].error = "Position already active"
    /\ calc.active_positions["BTCUSDT"] = "LONG"

(***************************************************************************)
(* Properties of a single trade cycle (checked under SpecCycle).           *)
(***************************************************************************)
\* C35: in TradingEngine on the sandbox venue, update_pnl_data and
\* update_stats_data are called at most once in a cycle, both have been
\* called once when a cycle without a failed step ends, neither is called in
\* a cycle that failed at some step, and an exit order exists only when the
\* entry order succeeded and the hold is over.
C35_UpdatesOncePerCompletedCycle ==
    (calc.pc = "cycle" /\ calc.impl = "TradingEngine" /\ calc.testnet) =>
        /\ calc.pnl_calls <= 1
        /\ calc.stats_calls <= 1
        /\ (calc.at = "ended" /\ calc.failed = "none") =>
               (calc.pnl_calls = 1 /\ calc.stats_calls = 1
                    /\ calc.entry_orders = 1 /\ calc.exit_orders = 1)
        /\ calc.failed # "none" => (calc.pnl_calls = 0 /\ calc.stats_calls = 0)
        /\ calc.exit_orders > 0 =>
               (calc.entry_orders = 1 /\ calc.at \notin {"queued", "hold"})

\* C35 witness: a SHORT cycle of TradingEngine on the sandbox venue has ended
\* with both orders placed, both update calls made and the summary sent.
C35_Witness ==
    /\ calc.pc = "cycle"
    /\ calc.impl = "TradingEngine"
    /\ calc.testnet
    /\ calc.direction = "SHORT"
    /\ calc.at = "ended"
    /\ calc.failed = "none"
    /\ calc.entry_orders = 1
    /\ calc.exit_orders = 1
    /\ calc.pnl_calls = 1
    /\ calc.stats_calls = 1
    /\ calc.result_replies = 1

\* C36: in a cycle whose exit price could not be obtained an error reply has
\* been sent, no closing order placed and neither update called, the entry
\* order stands, and once the cycle has ended the symbol is no longer in the
\* processing set.
C36_NoExitPriceLeavesPositionOpen ==
    (calc.pc = "cycle" /\ calc.failed = "exit_price") =>
        /\ calc.error_replies >= 1
        /\ calc.exit_orders = 0
        /\ calc.pnl_calls = 0
        /\ calc.stats_calls = 0
        /\ calc.result_replies = 0
        /\ calc.testnet => calc.entry_orders = 1
        /\ calc.at = "ended" => ~calc.processing

\* C36 witness: trade() on the sandbox venue entered a position, found no
\* exit price after the hold, replied with the error, and has ended with the
\* symbol out of the processing set.
C36_Witness ==
    /\ calc.pc = "cycle"
    /\ calc.impl = "trade"
    /\ calc.testnet
    /\ calc.failed = "exit_price"
    /\ calc.at = "ended"
    /\ calc.entry_orders = 1
    /\ calc.exit_orders = 0
    /\ calc.error_replies = 1
    /\ calc.pnl_calls = 0
    /\ ~calc.processing
    /\ calc.worker = "running"

(***************************************************************************)
(* Properties of TelegramListener.start (checked under SpecListenerStart). *)
(***************************************************************************)
\* C37: when the bot is found not to be a member or administrator of the
\* aggregation chat, or the membership lookup failed, no trade worker and no
\* message consumer is running.
C37_NotMemberNothingRuns ==
    (calc.pc = "listener" /\ calc.membership \in {"left", "raised"}) =>
        (calc.workers = 0 /\ ~calc.consumer)

(***************************************************************************)
(* Properties of the queues' acknowledgements (checked under SpecAck).     *)
(***************************************************************************)
\* C38: task_done has never been called more often than get has returned,
\* also when a consumer was cancelled while waiting in get.
C38_TaskDoneAtMostOncePerGet ==
    calc.pc = "ack" => calc.dones <= calc.gets

(***************************************************************************)
(* Properties of the unlocked reads (checked under SpecRead).              *)
(***************************************************************************)
\* C39: a read of the PnL or stats store returns the content of the last
\* completed save or the content being saved, never an empty store once
\* data has been persisted.
C39_ReadSeesBeforeOrAfter ==
    calc.pc = "read" =>
        /\ calc.seen = calc.committed \/ calc.seen \in calc.saving
        /\ calc.committed # EmptyMap => calc.seen # EmptyMap

(***************************************************************************)
(* Properties of a lookup whose refresh fails (checked under SpecMcap).    *)
(***************************************************************************)
\* C40: a lookup that finds no snapshot, or one older than
\* MARKETCAP_UPDATE_INTERVAL, and whose fetch gives no symbols answers False
\* whatever the symbol, also for a symbol the stale snapshot lists.
C40_FailedRefreshAnswersFalse ==
    (calc.pc = "mcap" /\ calc.lookups > 0
        /\ (calc.before.st # "json"
               \/ calc.at - calc.before.timestamp > MARKETCAP_UPDATE_INTERVAL)
        /\ get_top_market_cap(calc.response) = <<>>) =>
            (calc.fetched /\ ~calc.answer)

\* C40 witness: BTCUSDT was looked up against a snapshot 3601 s old that
\* lists it, the fetch failed, and the answer was False.
C40_Witness ==
    /\ calc.pc = "mcap"
    /\ calc.lookups = 1
    /\ calc.before = [st |-> "json", timestamp |-> 0, symbols |-> <<BTCUSDTChars>>]
    /\ calc.at = 3601
    /\ calc.symbol = BTCUSDTChars
    /\ ~calc.response.ok
    /\ calc.fetched
    /\ ~calc.answer

(***************************************************************************)
(* Properties of the listener and the consumer loop (checked under         *)
(* SpecListen and SpecListenLive).                                         *)
(***************************************************************************)
\* C16: no failure while a message is processed ends run_processor: the
\* consumer is always at one of its waits, and every message put on the
\* queue is dequeued and analysed, whatever was raised for the ones before.
C16_ConsumerOutlivesFailures ==
    /\ [](calc.pc = "listen" =>
             /\ calc.at \in {"get", "llm", "errmsg", "reply", "handler"}
             /\ (calc.at = "get") = (calc.cur = 0))
    /\ \A m \in Msgs : InList(m, calc.queue) ~> InList(m, calc.analysed)

\* C16 witness: processing message 1 raised, also in the error reply of the
\* handler, and message 2 was dequeued after it and is being analysed.
C16_Witness ==
    /\ calc.pc = "listen"
    /\ 1 \in calc.raised
    /\ calc.sent[1] = 0 /\ calc.tries[1] = 2
    /\ calc.analysed = <<1, 2>>
    /\ calc.cur = 2 /\ calc.at = "llm"

\* C17: messages are analysed in the order the listener received them.
C17_AnalysedInArrivalOrder ==
    calc.pc = "listen" =>
        \A i, j \in 1..Len(calc.analysed) :
            i < j => calc.analysed[i] < calc.analysed[j]

C19_SuspiciousAlwaysRejected ==
    (calc.pc = "validated" /\ (calc.response.front \/ calc.response.tail)) =>
        /\ ~calc.result.is_valid
        /\ calc.result.symbols = <<>>
        /\ ~calc.result.has_sentiment
        /\ calc.stats.security_violations = 1

\* C20: a response that passed the security check is valid exactly when a
\* sentiment within [-100, 100] and a symbol list were extracted and the mean
\* of the three confidences is at least min_confidence.
C20_ValidIffExtractedAndConfident ==
    (calc.pc = "validated" /\ ResponseLength(calc.response) > 0
        /\ ~check_security_violations(Truncate(calc.response))) =>
        LET response == Truncate(calc.response)
            v == calc.response.sentiment
            sentiment == extract_and_validate_sentiment(response).confidence
            symbols == extract_and_validate_symbols(response).confidence
            explanation == explanation_confidence(response, calc.require_explanation)
            sum == ExactAdd(ExactAdd(sentiment, symbols), explanation)
            threefold == ExactAdd(ExactAdd(min_confidence, min_confidence), min_confidence)
        IN  /\ calc.result.is_valid =
                  (/\ v.present /\ -100 <= v.value /\ v.value <= 100
                   /\ calc.response.coins.present
                   /\ AtLeast(sum, threefold))
            /\ (v.present /\ ~(-100 <= v.value /\ v.value <= 100)) => ~calc.result.is_valid

(***************************************************************************)
(* Properties of the market-cap tracker (checked under SpecMcap).          *)
(***************************************************************************)
\* C12 as stated: whatever list of coins the endpoint returns,
\* get_top_market_cap returns at most TOP_N_MARKETCAP symbols and no symbol
\* appears twice in the result.
C12_TopListBoundedNoDuplicates ==
    calc.pc = "fetched" =>
        /\ Len(calc.result) <= TOP_N_MARKETCAP
        /\ \A i, j \in 1..Len(calc.result) : calc.result[i] = calc.result[j] => i = j

\* C13: on a lookup, a snapshot on disk older than MARKETCAP_UPDATE_INTERVAL
\* is treated as if there were none: the endpoint is asked, the answer
\* decides, and a non-empty answer replaces the snapshot; a snapshot whose
\* age is within the interval decides alone, without a fetch, and stays as
\* it is.
C13_StaleSnapshotRefetched ==
    (calc.pc = "mcap" /\ calc.lookups > 0 /\ calc.before.st = "json") =>
        LET age == calc.at - calc.before.timestamp
            fetched == get_top_market_cap(calc.response)
        IN  /\ age > MARKETCAP_UPDATE_INTERVAL =>
                  /\ calc.fetched
                  /\ calc.answer = InList(calc.symbol, fetched)
                  /\ mcap_file = IF fetched # <<>>
                                 THEN [st |-> "json", timestamp |-> calc.at, symbols |-> fetched]
                                 ELSE calc.before
            /\ age <= MARKETCAP_UPDATE_INTERVAL =>
                  /\ ~calc.fetched
                  /\ calc.answer = InList(calc.symbol, calc.before.symbols)
                  /\ mcap_file = calc.before

\* C13 witness: a snapshot 3601 s old listing ETHUSDT was looked up for
\* BTCUSDT; the endpoint was asked and its answer, which lists BTC, replaced
\* the snapshot.
C13_Witness ==
    /\ calc.pc = "mcap" /\ calc.lookups = 1
    /\ calc.before = [st |-> "json", timestamp |-> 0, symbols |-> <<ETHUSDTChars>>]
    /\ calc.at = 3601
    /\ calc.symbol = BTCUSDTChars
    /\ calc.fetched /\ calc.answer
    /\ mcap_file = [st |-> "json", timestamp |-> 3601, symbols |-> <<BTCUSDTChars>>]

(***************************************************************************)
(* Properties of retry_api_call (checked under SpecRetry).                 *)
(***************************************************************************)
\* C14: retry_api_call calls the operation at most MAX_RETRIES times; it
\* returns the value of the first call that does not raise and makes no call
\* after it; when every call raised it returns None after MAX_RETRIES calls.
C14_RetryBoundedFirstSuccess ==
    calc.pc \in {"retry", "returned"} =>
        LET n == Len(calc.history)
            raised(i) == calc.history[i].kind # "return"
        IN  /\ n <= MAX_RETRIES
            /\ \A i \in 1..(n - 1) : raised(i)
            /\ calc.pc = "retry" => \A i \in 1..n : raised(i)
            /\ calc.pc = "returned" =>
                  /\ n >= 1
                  /\ ~raised(n) => calc.result = calc.history[n].value
                  /\ raised(n) => (n = MAX_RETRIES /\ calc.result = "None")

\* C14 witness: BinanceClient.retry_api_call made MAX_RETRIES calls, each
\* raised, and None was returned.
C14_Witness ==
    /\ calc.pc = "returned"
    /\ calc.impl = "BinanceClient"
    /\ Len(calc.history) = MAX_RETRIES
    /\ \A i \in 1..Len(calc.history) : calc.history[i].kind # "return"
    /\ calc.result = "None"

QueuedSymbols == {symbol_queue[i].symbol : i \in 1..Len(symbol_queue)}

\* C1: a symbol is in at most one of pending_symbols and processing_symbols,
\* the queue holds at most one item per symbol (exactly the pending ones), at
\* most one trade cycle per symbol is in flight, and an enqueue attempt for a
\* symbol that is pending or processing adds nothing to pending or the queue.
C1_OneSlotPerSymbol ==
    /\ [](/\ pending_symbols \cap processing_symbols = {}
          /\ \A i, j \in 1..Len(symbol_queue) :
                symbol_queue[i].symbol = symbol_queue[j].symbol => i = j
          /\ QueuedSymbols = pending_symbols
          /\ \A v, w \in Workers :
                InCycle(v) /\ InCycle(w) /\ wk[v].symbol = wk[w].symbol => v = w
          /\ \A w \in Workers : InCycle(w) => wk[w].symbol \in processing_symbols)
    /\ [][/\ (proc.pc = "sym" /\ proc'.pc = "notice" /\ proc'.notice = "trade")
                => proc'.symbol \notin pending_symbols \cup processing_symbols
          /\ (proc.pc = "notice" /\ proc.notice = "duplicate" /\ proc' # proc)
                => /\ UNCHANGED <<pending_symbols, symbol_queue>>
                   /\ processing_symbols' \subseteq processing_symbols
          /\ (Len(symbol_queue') > Len(symbol_queue) /\ variant # "engine")
                => (proc.pc = "notice" /\ proc.notice = "trade")
          /\ \A i \in (Len(symbol_queue) + 1)..Len(symbol_queue') :
                symbol_queue'[i].symbol \notin pending_symbols \cup processing_symbols
      ]_vars

\* C1 witness: with the QueueManager wiring, a second signal for a symbol
\* whose trade cycle is running is being answered with the "already in queue
\* or being processed" notice.
C1_Witness ==
    /\ variant = "app"
    /\ proc.pc = "notice" /\ proc.notice = "duplicate" /\ proc.symbol = AAAUSDT
    /\ \E w \in Workers : wk[w].pc = "trade" /\ wk[w].symbol = AAAUSDT
    /\ processing_symbols = {AAAUSDT}
    /\ symbol_queue = <<>>

\* C2: once a worker has dequeued an item, however the cycle ends (normal
\* return, aborted step, exception out of the last handler, cancellation
\* while it holds), the symbol is then in neither set, so that the dedup
\* check of a later enqueue attempt passes: a symbol is in processing_symbols
\* only while a worker runs its cycle, and a signal is refused as a duplicate
\* only for a symbol that is in one of the sets.
C2_CycleEndFreesSymbol ==
    /\ [](processing_symbols = {wk[w].symbol : w \in {x \in Workers : InCycle(x)}})
    /\ [][/\ \A w \in Workers :
               (InCycle(w) /\ ~(wk'[w].pc \in {"trade", "hold", "upd", "reply"}))
                   => /\ wk[w].symbol \notin processing_symbols'
                      /\ wk[w].symbol \notin pending_symbols'
          /\ (proc.pc = "sym" /\ proc'.pc = "notice" /\ proc'.notice = "duplicate")
                => (proc'.symbol \in pending_symbols \cup processing_symbols)
      ]_vars

\* C2 witness: a worker of run_cryptopulse.py ended a cycle for AAAUSDT with an
\* exception, and a later signal for AAAUSDT has been accepted.
C2_Witness ==
    /\ variant = "mono"
    /\ \E w \in Workers : wk[w].pc = "dead" /\ wk[w].symbol = AAAUSDT
    /\ AAAUSDT \in pending_symbols
    /\ processing_symbols = {}

\* a fresh snapshot lists the symbol
ListedTop(file, symbol) ==
    /\ file.st = "json"
    /\ ~(now - file.timestamp > MARKETCAP_UPDATE_INTERVAL)
    /\ InList(symbol, file.symbols)

C4_ThresholdAndDirection ==
    /\ [](proc.pc \in {"sym", "notice"} => Abs(proc.sentiment) >= TRADE_SENTIMENT_THRESHOLD)
    /\ [][\A i \in (Len(symbol_queue) + 1)..Len(symbol_queue') :
            /\ Abs(proc'.sentiment) >= TRADE_SENTIMENT_THRESHOLD
            /\ (proc'.sentiment > 0) => (symbol_queue'[i].direction = "LONG")
            /\ (proc'.sentiment < 0) => (symbol_queue'[i].direction = "SHORT")
      ]_vars

\* C4 witness: a message with sentiment -50 has put a SHORT signal in the queue.
C4_Witness ==
    /\ proc.pc = "sym" /\ proc.sentiment = -50
    /\ Len(symbol_queue) = 1
    /\ symbol_queue[1].direction = "SHORT"
    /\ symbol_queue[1].symbol = AAAUSDT

\* C5 as stated: on the sandbox venue the order that opens the position is a
\* BUY for a LONG signal and a SELL for a SHORT signal, and the order that
\* closes it is on the opposite side.
C5_OrderSidesFollowDirection ==
    \A w \in Workers :
        (BINANCE_TESTNET_FLAG /\ variant \in {"mono", "modules"}) =>
            /\ wk[w].entry_side # "none" =>
                   wk[w].entry_side = IF wk[w].direction = "LONG" THEN "BUY" ELSE "SELL"
            /\ wk[w].exit_side # "none" =>
                   wk[w].exit_side = IF wk[w].direction = "LONG" THEN "SELL" ELSE "BUY"

\* C6 as stated: in the modules pipeline the chat id carried by a queued
\* signal, handed to update_pnl_data and used as PnL key is the id of the
\* channel the message came from, never the aggregation chat.
C6_SignalCarriesSourceChat ==
    variant = "modules" =>
        /\ \A i \in 1..Len(symbol_queue) : symbol_queue[i].chat \in SourceChats
        /\ \A w \in Workers : InCycle(w) => wk[w].chat \in SourceChats
        /\ \A w \in Workers : upd[w].op = "pnl" => upd[w].key \in SourceChats
        /\ DOMAIN load_data(pnl_file) \subseteq SourceChats

====
